---------------------------- MODULE Spec2Model ----------------------------
(***************************************************************************)
(* Model of the recipe-finder TTL cache (src/lib/cache.ts) and of the meal *)
(* resolver built on it (src/unnamed/part_003, the API service).           *)
(*                                                                         *)
(* JavaScript strings are sequences of one-character strings, so that key  *)
(* building (template literals, join), toLowerCase, trim and sort are      *)
(* computed character by character.  JavaScript values kept in the cache   *)
(* are tagged records: Null, [str |-> s], [list |-> seq], [meal |-> rec].  *)
(* One step of the model is one turn of the event loop: the synchronous    *)
(* code of a call or of a response together with the continuations it      *)
(* makes runnable; Date.now() is constant within a step and advanced by    *)
(* Tick between steps.                                                     *)
(***************************************************************************)
EXTENDS Integers, Sequences, FiniteSets, TLC

-----------------------------------------------------------------------------
(* Bounds of the model *)

\* Largest clock value of the cache-only specification (clock unit: 1 ms).
MaxNow == 3
\* Number of top-level calls issued in the withCache and resolver specifications.
MaxCalls == 2
\* Number of clock advances in the withCache specification.
MaxTicks == 3
\* Number of clock advances in the resolver specification.
MaxWaits == 1
\* Number of upstream requests that may be pending when the resolver is called.
MaxOverlap == 0
\* Number of upstream requests answered in the specification of resolutions
\* with several names.
MaxArrivals == 5
\* Number of slots without ingredient in the meal records given to
\* parseIngredients.
MaxBlank == 2
\* Number of periods of the cleanup timer in the sweep specification.
MaxSweeps == 1
\* Number of upstream requests that get a response; later ones stay pending.
MaxResponses == 4

-----------------------------------------------------------------------------
(* Strings *)

Upper == <<"A","B","C","D","E","F","G","H","I","J","K","L","M",
           "N","O","P","Q","R","S","T","U","V","W","X","Y","Z">>
Lower == <<"a","b","c","d","e","f","g","h","i","j","k","l","m",
           "n","o","p","q","r","s","t","u","v","w","x","y","z">>
Digit == <<"0","1","2","3","4","5","6","7","8","9">>

IndexIn(c, s) == CHOOSE i \in 1..Len(s) : s[i] = c

IsIn(c, s) == \E i \in 1..Len(s) : s[i] = c

\* UTF-16 code unit of a character (the order String comparison uses).
Code(c) ==
    IF IsIn(c, Upper) THEN 64 + IndexIn(c, Upper)
    ELSE IF IsIn(c, Lower) THEN 96 + IndexIn(c, Lower)
    ELSE IF IsIn(c, Digit) THEN 47 + IndexIn(c, Digit)
    ELSE CASE c = "\t" -> 9
           [] c = " " -> 32
           [] c = "," -> 44
           [] c = ":" -> 58
           [] c = "|" -> 124

WhiteSpace == {" ", "\t"}

\* String.prototype.toLowerCase
ToLowerCase(s) ==
    [i \in 1..Len(s) |-> IF IsIn(s[i], Upper) THEN Lower[IndexIn(s[i], Upper)] ELSE s[i]]

\* String.prototype.trim
Trim(s) ==
    LET keep == {i \in 1..Len(s) : s[i] \notin WhiteSpace}
    IN IF keep = {} THEN <<>>
       ELSE LET lo == CHOOSE i \in keep : \A j \in keep : i <= j
                hi == CHOOSE i \in keep : \A j \in keep : j <= i
            IN SubSeq(s, lo, hi)

\* a < b in the order of the default Array.prototype.sort comparator
\* (code units compared left to right, a proper prefix first).
StrLess(a, b) ==
    \E i \in 1..(Len(b)) :
        /\ i <= Len(a) + 1
        /\ \A j \in 1..(i - 1) : a[j] = b[j]
        /\ (i = Len(a) + 1 \/ Code(a[i]) < Code(b[i]))

RECURSIVE Insert(_, _)
Insert(x, sorted) ==
    IF sorted = <<>> THEN <<x>>
    ELSE IF StrLess(x, Head(sorted)) THEN <<x>> \o sorted
    ELSE <<Head(sorted)>> \o Insert(x, Tail(sorted))

SortKeepsOrder(a) == a

\* Array.prototype.sort() without comparator: the array in ascending order.
RECURSIVE SortStrings(_)
SortStrings(a) ==
    IF a = <<>> THEN <<>> ELSE Insert(a[Len(a)], SortStrings(SubSeq(a, 1, Len(a) - 1)))

\* Array.prototype.join(sep)
RECURSIVE Join(_, _)
Join(a, sep) ==
    IF a = <<>> THEN <<>>
    ELSE IF Len(a) = 1 THEN a[1]
    ELSE a[1] \o sep \o Join(Tail(a), sep)

-----------------------------------------------------------------------------
(* Values *)

\* JavaScript null
Null == [null |-> TRUE]

Str(s) == [str |-> s]

List(s) == [list |-> s]

Meal(m) == [meal |-> m]

\* An optional argument: <<>> when omitted, <<x>> when given as x.
Omitted == <<>>

Given(x) == <<x>>

-----------------------------------------------------------------------------
(* class Cache: the Map is a function from the stored keys to their entries *)

EmptyMap == << >>

MapHas(m, k) == k \in DOMAIN m

MapDelete(m, k) == [j \in (DOMAIN m) \ {k} |-> m[j]]

MapSet(m, k, e) == [j \in (DOMAIN m) \cup {k} |-> IF j = k THEN e ELSE m[j]]

ExpiredNonStrict(entry, t) == t >= entry.expiresAt

\* cache.ts:31  Date.now() > entry.expiresAt
Expired(entry, t) == t > entry.expiresAt

GetKeepsExpired(m, k, t) ==
    IF ~MapHas(m, k) THEN [cache |-> m, value |-> Null]
    ELSE IF Expired(m[k], t) THEN [cache |-> m, value |-> Null]
    ELSE [cache |-> m, value |-> m[k].data]

\* Cache.get: the map after the call and the value returned
CacheGet(m, k, t) ==
    IF ~MapHas(m, k) THEN [cache |-> m, value |-> Null]
    ELSE IF Expired(m[k], t) THEN [cache |-> MapDelete(m, k), value |-> Null]
    ELSE [cache |-> m, value |-> m[k].data]

DEFAULT_TTL == 5 * 60 * 1000

CacheSetWithoutNow(m, k, data, ttl, t) ==
    LET ms == IF ttl = Omitted THEN DEFAULT_TTL ELSE ttl[1]
    IN MapSet(m, k, [data |-> data, expiresAt |-> ms])

CacheSetFalsyTtl(m, k, data, ttl, t) ==
    LET ms == IF ttl = Omitted \/ ttl = Given(0) THEN DEFAULT_TTL ELSE ttl[1]
    IN MapSet(m, k, [data |-> data, expiresAt |-> t + ms])

CacheSetKeepsExisting(m, k, data, ttl, t) ==
    LET ms == IF ttl = Omitted THEN DEFAULT_TTL ELSE ttl[1]
    IN IF MapHas(m, k) THEN m ELSE MapSet(m, k, [data |-> data, expiresAt |-> t + ms])

\* Cache.set, ttl an optional argument
CacheSet(m, k, data, ttl, t) ==
    LET ms == IF ttl = Omitted THEN DEFAULT_TTL ELSE ttl[1]
        expiresAt == t + ms
    IN MapSet(m, k, [data |-> data, expiresAt |-> expiresAt])

CacheHasStored(m, k, t) == [cache |-> m, value |-> MapHas(m, k)]

\* Cache.has
CacheHas(m, k, t) ==
    LET g == CacheGet(m, k, t) IN [cache |-> g.cache, value |-> g.value # Null]

CacheDeleteReportsTrue(m, k) == [cache |-> MapDelete(m, k), value |-> TRUE]

\* Cache.delete
CacheDelete(m, k) == [cache |-> MapDelete(m, k), value |-> MapHas(m, k)]

CacheClearKeepsAll(m) == m

\* Cache.clear
CacheClear(m) == EmptyMap

CacheCleanupNonStrict(m, t) ==
    LET keysToDelete == {k \in DOMAIN m : t >= m[k].expiresAt}
    IN [j \in (DOMAIN m) \ keysToDelete |-> m[j]]

\* Cache.cleanup
CacheCleanup(m, t) ==
    LET keysToDelete == {k \in DOMAIN m : Expired(m[k], t)}
    IN [j \in (DOMAIN m) \ keysToDelete |-> m[j]]

CacheStatsLiveUpperBound(m) == [size |-> Cardinality(DOMAIN m) - 1, keys |-> DOMAIN m]

\* Cache.getStats (keys as a set: the claims do not depend on their order)
CacheStats(m) == [size |-> Cardinality(DOMAIN m), keys |-> DOMAIN m]

-----------------------------------------------------------------------------
(* CACHE_TTL and CacheKeys *)

CACHE_TTL_SHORT == 2 * 60 * 1000

CACHE_TTL_MEDIUM == 5 * 60 * 1000

CACHE_TTL_LONG == 30 * 60 * 1000

\* CacheKeys.categories
CategoriesKey == <<"c","a","t","e","g","o","r","i","e","s">>

\* CacheKeys.areas
AreasKey == <<"a","r","e","a","s">>

\* CacheKeys.search
SearchKeyVerbatim(query) == <<"s","e","a","r","c","h",":">> \o query

SearchKey(query) == <<"s","e","a","r","c","h",":">> \o ToLowerCase(query)

\* CacheKeys.mealById
MealByIdKey(id) == <<"m","e","a","l",":">> \o id

\* CacheKeys.filterByCategory
FilterByCategoryKey(category) ==
    <<"f","i","l","t","e","r",":","c","a","t","e","g","o","r","y",":">> \o category

\* CacheKeys.filterByArea
FilterByAreaKey(area) == <<"f","i","l","t","e","r",":","a","r","e","a",":">> \o area

FilteredMealsKeyNormalized(options) ==
    LET q == ToLowerCase(Trim(options.searchQuery))
        parts0 == << <<"f","i","l","t","e","r","e","d">> >>
        parts1 == IF q # <<>> THEN Append(parts0, <<"q",":">> \o q) ELSE parts0
        cats == IF Len(options.categories) > 0
                THEN SortStrings(options.categories)
                ELSE options.categories
        parts2 == IF Len(options.categories) > 0
                  THEN Append(parts1, <<"c",":">> \o Join(cats, <<",">>))
                  ELSE parts1
        ars == IF Len(options.areas) > 0
               THEN SortStrings(options.areas)
               ELSE options.areas
        parts3 == IF Len(options.areas) > 0
                  THEN Append(parts2, <<"a",":">> \o Join(ars, <<",">>))
                  ELSE parts2
    IN [key |-> Join(parts3, <<"|">>),
        options |-> [searchQuery |-> options.searchQuery, categories |-> cats, areas |-> ars]]

\* CacheKeys.filteredMeals: the key, and the options object after the call
\* (Array.prototype.sort sorts options.categories and options.areas in place).
FilteredMealsKey(options) ==
    LET parts0 == << <<"f","i","l","t","e","r","e","d">> >>
        parts1 == IF options.searchQuery # <<>>
                  THEN Append(parts0, <<"q",":">> \o options.searchQuery)
                  ELSE parts0
        cats == IF Len(options.categories) > 0
                THEN SortStrings(options.categories)
                ELSE options.categories
        parts2 == IF Len(options.categories) > 0
                  THEN Append(parts1, <<"c",":">> \o Join(cats, <<",">>))
                  ELSE parts1
        ars == IF Len(options.areas) > 0
               THEN SortStrings(options.areas)
               ELSE options.areas
        parts3 == IF Len(options.areas) > 0
                  THEN Append(parts2, <<"a",":">> \o Join(ars, <<",">>))
                  ELSE parts2
    IN [key |-> Join(parts3, <<"|">>),
        options |-> [searchQuery |-> options.searchQuery, categories |-> cats, areas |-> ars]]

-----------------------------------------------------------------------------
(* The API service: results, errors, pure helpers *)

Ok(v) == [ok |-> TRUE, v |-> v]

Fail(e) == [ok |-> FALSE, err |-> e]

NoStatus == <<>>

\* new ApiError(message, statusCode?)
ApiError(message, statusCode) ==
    [name |-> "ApiError", message |-> message, statusCode |-> statusCode]

\* error instanceof ApiError, error instanceof Error: thrown values are
\* records with the name of their class ("ApiError" extends Error).
InstanceOfApiError(error) == error.name = "ApiError"

InstanceOfError(error) == error.name \in {"Error", "TypeError", "SyntaxError", "ApiError"}

\* The try block of fetchAPI: what it returns or throws for an upstream
\* response.  A response is [type |-> "ok", meals |-> payload],
\* [type |-> "status", ...] (response.ok false), [type |-> "throw", ...]
\* (fetch rejects) or [type |-> "json", ...] (response.json() rejects).
TryFetch(resp) ==
    IF resp.type = "ok" THEN Ok([meals |-> resp.meals])
    ELSE IF resp.type = "status"
    THEN Fail(ApiError("API request failed: " \o resp.statusText, Given(resp.status)))
    ELSE Fail(resp.error)

FetchAPIRewraps(resp) ==
    LET r == TryFetch(resp)
    IN IF r.ok THEN r
       ELSE Fail(ApiError(IF InstanceOfError(r.err) THEN r.err.message
                          ELSE "An unknown error occurred", NoStatus))

\* fetchAPI: the settled value of the promise for an upstream response.
FetchAPI(resp) ==
    LET r == TryFetch(resp)
    IN IF r.ok THEN r
       ELSE IF InstanceOfApiError(r.err) THEN r
       ELSE Fail(ApiError(IF InstanceOfError(r.err) THEN r.err.message
                          ELSE "An unknown error occurred", NoStatus))

\* data.meals || []
MealsOrPlaceholder(data) ==
    IF data.meals = Null
    THEN <<[idMeal |-> <<"0">>, strMeal |-> "none", strMealThumb |-> "",
            strCategory |-> <<>>, strArea |-> <<>>]>>
    ELSE data.meals.list

MealsOrEmpty(data) == IF data.meals = Null THEN <<>> ELSE data.meals.list

\* data.meals?.[0] || null
FirstMealOrNull(data) ==
    IF data.meals = Null THEN Null
    ELSE IF data.meals.list = <<>> THEN Null
    ELSE Meal(data.meals.list[1])

IsEmptyString(query) == query = <<>>

\* api.ts searchMealsByName:  !query.trim()
IsBlank(query) == Trim(query) = <<>>

\* Array.prototype.includes
Includes(a, x) == \E i \in 1..Len(a) : a[i] = x

FilterCategoriesOnly(searchResults, categories, areas) ==
    LET Pass(meal) == Len(categories) = 0 \/ Includes(categories, meal.strCategory)
    IN SelectSeq(searchResults, Pass)

\* performFilteredSearch: the client-side filter of the search branch
\* (a missing strCategory or strArea is the empty string, as `x || ""` makes it).
ClientFilter(searchResults, categories, areas) ==
    LET Pass(meal) ==
            LET categoryMatch == Len(categories) = 0 \/ Includes(categories, meal.strCategory)
                areaMatch == Len(areas) = 0 \/ Includes(areas, meal.strArea)
            IN categoryMatch /\ areaMatch
    IN SelectSeq(searchResults, Pass)

AreaFilterKeepsAll(results, areas) == results

\* performFilteredSearch: results.filter((meal) => areas.includes(meal.strArea || ""))
AreaFilter(results, areas) ==
    LET Pass(meal) == Includes(areas, meal.strArea)
    IN SelectSeq(results, Pass)

\* Array.prototype.flat over a sequence of List values
RECURSIVE Flat(_)
Flat(lists) == IF lists = <<>> THEN <<>> ELSE Head(lists).list \o Flat(Tail(lists))

\* uniqueMeals.set(meal.idMeal, meal) for each meal, then Array.from(values()):
\* a Map keeps a key at the position of its first insertion and the value last set.
RECURSIVE UniqueMeals(_, _)
UniqueMeals(results, acc) ==
    IF results = <<>> THEN acc
    ELSE LET meal == Head(results)
             at == {i \in 1..Len(acc) : acc[i].idMeal = meal.idMeal}
         IN UniqueMeals(Tail(results),
                        IF at = {} THEN Append(acc, meal)
                        ELSE [i \in 1..Len(acc) |-> IF i \in at THEN meal ELSE acc[i]])

SummaryOfPartial(fullMeal) ==
    [idMeal |-> fullMeal.idMeal, strMeal |-> fullMeal.strMeal,
     strMealThumb |-> fullMeal.strMealThumb,
     strCategory |-> <<>>, strArea |-> <<>>]

SummaryWithoutThumbnail(fullMeal) ==
    [idMeal |-> fullMeal.idMeal, strMeal |-> fullMeal.strMeal,
     strMealThumb |-> "",
     strCategory |-> fullMeal.strCategory, strArea |-> fullMeal.strArea]

\* filterByCategory / filterByArea: the MealSummary built from a full meal
Summary(fullMeal) ==
    [idMeal |-> fullMeal.idMeal, strMeal |-> fullMeal.strMeal,
     strMealThumb |-> fullMeal.strMealThumb,
     strCategory |-> fullMeal.strCategory, strArea |-> fullMeal.strArea]

\* filterByCategory / filterByArea: detailedMeals with the nulls filtered out
DetailedMeals(kids) ==
    LET mapped == [i \in 1..Len(kids) |->
                      IF kids[i] = Null THEN Null ELSE Meal(Summary(kids[i].meal))]
        NotNull(x) == x # Null
        kept == SelectSeq(mapped, NotNull)
    IN [i \in 1..Len(kept) |-> kept[i].meal]

\* undefined, the value of a property the record does not have
Undefined == [undefined |-> TRUE]

\* typeof v === "string"
IsString(v) == "str" \in DOMAIN v

\* TheMealDB has up to 20 ingredient/measure pairs
SLOTS == 20

ExtractUntrimmed(slot) ==
    IF IsString(slot.ingredient) /\ slot.ingredient.str # <<>>
    THEN <<[ingredient |-> slot.ingredient.str,
            measure |-> IF IsString(slot.measure) THEN slot.measure.str ELSE <<>>]>>
    ELSE <<>>

\* parseIngredients, the body of the loop: the pair pushed for a slot, if any.
\* A slot is [ingredient |-> meal.strIngredient<i>, measure |-> meal.strMeasure<i>].
Extract(slot) ==
    IF IsString(slot.ingredient) /\ slot.ingredient.str # <<>>
                                 /\ Trim(slot.ingredient.str) # <<>>
    THEN <<[ingredient |-> Trim(slot.ingredient.str),
            measure |-> IF IsString(slot.measure) THEN Trim(slot.measure.str) ELSE <<>>]>>
    ELSE <<>>

\* parseIngredients, the loop from slot i on; meal is the sequence of its slots.
RECURSIVE ParseFrom(_, _, _)
ParseFrom(meal, i, ingredients) ==
    IF i > SLOTS THEN ingredients
    ELSE ParseFrom(meal, i + 1, ingredients \o Extract(meal[i]))

\* parseIngredients
ParseIngredients(meal) == ParseFrom(meal, 1, <<>>)

-----------------------------------------------------------------------------
(* Pending promises.                                                       *)
(*                                                                         *)
(* A node is one withCache invocation that missed the cache: it is waiting *)
(* for its upstream response (phase "fetch") or for the promises of its    *)
(* Promise.all (phase "join").  parent/slot say whose Promise.all awaits   *)
(* it (parent 0: the top-level caller), call is the top-level call it      *)
(* belongs to.  A state st is [cache, nodes, calls, log, setLog].          *)

NoOptions == [searchQuery |-> <<>>, categories |-> <<>>, areas |-> <<>>]

NoFetcher == [resolves |-> TRUE, value |-> Null]

NoUpstream ==
    [fetcher |-> 0, search |-> 0, lookup |-> 0, category |-> 0, area |-> 0, list |-> 0]

\* arg: the query, id, category or area the fetcher asks upstream for.
NewNode(kind, arg, key, ttl, parent, slot, call) ==
    [kind |-> kind, arg |-> arg, key |-> key, ttl |-> ttl, parent |-> parent,
     slot |-> slot, call |-> call, options |-> NoOptions, fetcher |-> NoFetcher,
     phase |-> "fetch", items |-> <<>>, kids |-> <<>>, got |-> <<>>]

\* A settled node: nothing of it is read again.
DoneNode ==
    [kind |-> "done", arg |-> <<>>, key |-> <<>>, ttl |-> Omitted, parent |-> 0,
     slot |-> 0, call |-> 0, options |-> NoOptions, fetcher |-> NoFetcher,
     phase |-> "done", items |-> <<>>, kids |-> <<>>, got |-> <<>>]

\* A top-level call as its caller sees it, with what the model records of it:
\* before/alone: the store when it was made and whether nothing was pending;
\* up: the upstream requests (fetcher invocations) made on its behalf;
\* branch/parts: the branch performFilteredSearch took ("cache": it did not
\* run) and the lists it awaited.  errors: the errors of its upstream requests
\* that failed, in the order of the failures; failures: the responses that
\* made them fail; nulls: for each of its upstream responses without a payload
\* list, the function that got it, what that function stored under its key
\* and, for the function the caller called, what it returned; overlaps: the
\* earlier calls still pending when it was made; order: its rank among the
\* calls in the order they settled.
NewCall(op, key, ttl, options, optionsAfter, fetcher, t, st) ==
    [op |-> op, key |-> key, ttl |-> ttl, options |-> options,
     optionsAfter |-> optionsAfter, fetcher |-> fetcher, at |-> t,
     before |-> st.cache,
     alone |-> \A n \in 1..Len(st.nodes) : st.nodes[n].phase = "done",
     status |-> "pending", result |-> Null, doneAt |-> 0, up |-> NoUpstream,
     branch |-> "cache", parts |-> <<>>, errors |-> <<>>, failures |-> <<>>,
     nulls |-> <<>>,
     overlaps |-> {i \in 1..Len(st.calls) : st.calls[i].status = "pending"},
     order |-> 0]

\* The endpoint a node's fetcher requests first.
Endpoint(kind) ==
    CASE kind = "raw" -> "fetcher"
      [] kind = "search" -> "search"
      [] kind = "meal" -> "lookup"
      [] kind = "fcat" -> "category"
      [] kind = "farea" -> "area"
      [] kind \in {"categories", "areas"} -> "list"

\* performFilteredSearch: the branch taken
Branch(options) ==
    IF options.searchQuery # <<>> THEN "search"
    ELSE IF Len(options.categories) > 0 THEN "category"
    ELSE IF Len(options.areas) > 0 THEN "area"
    ELSE "none"

\* The value a node's fetcher resolves to once every awaited promise has resolved.
Combine(node) ==
    IF node.kind = "filtered"
    THEN CASE Branch(node.options) = "search" ->
                List(ClientFilter(node.kids[1].list, node.options.categories,
                                  node.options.areas))
           [] Branch(node.options) = "category" ->
                LET results == UniqueMeals(Flat(node.kids), <<>>)
                IN List(IF Len(node.options.areas) > 0
                        THEN AreaFilter(results, node.options.areas)
                        ELSE results)
           [] Branch(node.options) = "area" -> List(UniqueMeals(Flat(node.kids), <<>>))
    ELSE List(DetailedMeals(node.kids))

RECURSIVE Settle(_, _, _, _, _, _)
RECURSIVE Finish(_, _, _, _)
RECURSIVE WithCache(_, _, _)
RECURSIVE RunFetcher(_, _, _)
RECURSIVE StartKids(_, _, _, _)

FinishStampsCallTime(st, t, n, outcome) ==
    LET node == st.nodes[n]
        t0 == st.calls[node.call].at
        st1 == [st EXCEPT !.cache = IF outcome.ok
                                    THEN CacheSet(st.cache, node.key, outcome.v, node.ttl, t0)
                                    ELSE st.cache,
                          !.setLog = IF outcome.ok
                                     THEN MapSet(@, node.key,
                                                 [data |-> outcome.v, at |-> t0,
                                                  arg |-> node.ttl,
                                                  ttl |-> IF node.ttl = Omitted
                                                          THEN DEFAULT_TTL
                                                          ELSE node.ttl[1]])
                                     ELSE @,
                          !.nodes[n] = DoneNode,
                          !.calls[node.call].parts =
                              IF node.kind = "filtered" /\ node.parent = 0
                              THEN node.kids ELSE @]
    IN Settle(st1, t, node.parent, node.slot, node.call, outcome)

\* Finish giving up its write when an entry the call found stored is gone.
FinishUnlessRemoved(st, t, n, outcome) ==
    LET node == st.nodes[n]
        kept == \A k \in DOMAIN st.calls[node.call].before : MapHas(st.cache, k)
        stores == outcome.ok /\ kept
        st1 == [st EXCEPT !.cache = IF stores
                                    THEN CacheSet(st.cache, node.key, outcome.v, node.ttl, t)
                                    ELSE st.cache,
                          !.setLog = IF stores
                                     THEN MapSet(@, node.key,
                                                 [data |-> outcome.v, at |-> t,
                                                  arg |-> node.ttl,
                                                  ttl |-> IF node.ttl = Omitted
                                                          THEN DEFAULT_TTL
                                                          ELSE node.ttl[1]])
                                     ELSE @,
                          !.nodes[n] = DoneNode,
                          !.calls[node.call].parts =
                              IF node.kind = "filtered" /\ node.parent = 0
                              THEN node.kids ELSE @]
    IN Settle(st1, t, node.parent, node.slot, node.call, outcome)

FinishKeepsFirst(st, t, n, outcome) ==
    LET node == st.nodes[n]
        stores == outcome.ok /\ ~MapHas(st.cache, node.key)
        st1 == [st EXCEPT !.cache = IF stores
                                    THEN CacheSet(st.cache, node.key, outcome.v, node.ttl, t)
                                    ELSE st.cache,
                          !.setLog = IF stores
                                     THEN MapSet(@, node.key,
                                                 [data |-> outcome.v, at |-> t,
                                                  arg |-> node.ttl,
                                                  ttl |-> IF node.ttl = Omitted
                                                          THEN DEFAULT_TTL
                                                          ELSE node.ttl[1]])
                                     ELSE @,
                          !.nodes[n] = DoneNode,
                          !.calls[node.call].parts =
                              IF node.kind = "filtered" /\ node.parent = 0
                              THEN node.kids ELSE @]
    IN Settle(st1, t, node.parent, node.slot, node.call, outcome)

FinishAlwaysStores(st, t, n, outcome) ==
    LET node == st.nodes[n]
        data == IF outcome.ok THEN outcome.v ELSE Null
        st1 == [st EXCEPT !.cache = CacheSet(st.cache, node.key, data, node.ttl, t),
                          !.nodes[n] = DoneNode,
                          !.calls[node.call].parts =
                              IF node.kind = "filtered" /\ node.parent = 0
                              THEN node.kids ELSE @]
    IN Settle(st1, t, node.parent, node.slot, node.call, outcome)

\* withCache lines 203-208: the fetcher of node n has settled with outcome.
\* A resolved value is stored and returned; a rejection propagates.
Finish(st, t, n, outcome) ==
    LET node == st.nodes[n]
        st1 == [st EXCEPT !.cache = IF outcome.ok
                                    THEN CacheSet(st.cache, node.key, outcome.v, node.ttl, t)
                                    ELSE st.cache,
                          !.setLog = IF outcome.ok
                                     THEN MapSet(@, node.key,
                                                 [data |-> outcome.v, at |-> t,
                                                  arg |-> node.ttl,
                                                  ttl |-> IF node.ttl = Omitted
                                                          THEN DEFAULT_TTL
                                                          ELSE node.ttl[1]])
                                     ELSE @,
                          !.nodes[n] = DoneNode,
                          !.calls[node.call].parts =
                              IF node.kind = "filtered" /\ node.parent = 0
                              THEN node.kids ELSE @]
    IN Settle(st1, t, node.parent, node.slot, node.call, outcome)

SettleBestEffort(st, t, parent, slot, call, outcome) ==
    IF parent = 0
    THEN [st EXCEPT !.calls[call].status = IF outcome.ok THEN "resolved" ELSE "rejected",
                    !.calls[call].result = IF outcome.ok THEN outcome.v ELSE outcome.err,
                    !.calls[call].doneAt = t,
                    !.calls[call].order =
                        1 + Cardinality({i \in 1..Len(st.calls) :
                                            st.calls[i].status # "pending"})]
    ELSE IF st.nodes[parent].phase # "join" THEN st
    ELSE LET v == IF outcome.ok THEN outcome.v
                  ELSE IF st.nodes[parent].kind = "filtered" THEN List(<<>>) ELSE Null
             st1 == [st EXCEPT !.nodes[parent].kids[slot] = v,
                               !.nodes[parent].got[slot] = TRUE]
             p == st1.nodes[parent]
         IN IF \A i \in 1..Len(p.got) : p.got[i]
            THEN Finish(st1, t, parent, Ok(Combine(p)))
            ELSE st1

SettleInArrivalOrder(st, t, parent, slot, call, outcome) ==
    IF parent = 0
    THEN [st EXCEPT !.calls[call].status = IF outcome.ok THEN "resolved" ELSE "rejected",
                    !.calls[call].result = IF outcome.ok THEN outcome.v ELSE outcome.err,
                    !.calls[call].doneAt = t,
                    !.calls[call].order =
                        1 + Cardinality({i \in 1..Len(st.calls) :
                                            st.calls[i].status # "pending"})]
    ELSE IF st.nodes[parent].phase # "join" THEN st
    ELSE IF ~outcome.ok THEN Finish(st, t, parent, outcome)
    ELSE LET got == st.nodes[parent].got
             free == CHOOSE i \in 1..Len(got) :
                         ~got[i] /\ \A j \in 1..(i - 1) : got[j]
             st1 == [st EXCEPT !.nodes[parent].kids[free] = outcome.v,
                               !.nodes[parent].got[free] = TRUE]
             p == st1.nodes[parent]
         IN IF \A i \in 1..Len(p.got) : p.got[i]
            THEN Finish(st1, t, parent, Ok(Combine(p)))
            ELSE st1

\* A promise settles: the top-level caller gets its result, or the Promise.all
\* of the parent records the value (resolving when all are in) or rejects with
\* the first rejection; a parent that has settled already ignores it.
Settle(st, t, parent, slot, call, outcome) ==
    IF parent = 0
    THEN [st EXCEPT !.calls[call].status = IF outcome.ok THEN "resolved" ELSE "rejected",
                    !.calls[call].result = IF outcome.ok THEN outcome.v ELSE outcome.err,
                    !.calls[call].doneAt = t,
                    !.calls[call].order =
                        1 + Cardinality({i \in 1..Len(st.calls) :
                                            st.calls[i].status # "pending"})]
    ELSE IF st.nodes[parent].phase # "join" THEN st
    ELSE IF ~outcome.ok THEN Finish(st, t, parent, outcome)
    ELSE LET st1 == [st EXCEPT !.nodes[parent].kids[slot] = outcome.v,
                               !.nodes[parent].got[slot] = TRUE]
             p == st1.nodes[parent]
         IN IF \A i \in 1..Len(p.got) : p.got[i]
            THEN Finish(st1, t, parent, Ok(Combine(p)))
            ELSE st1

\* withCache lines 196-203: a cached value other than null is returned,
\* otherwise the fetcher is invoked.
WithCache(st, t, node) ==
    LET g == CacheGet(st.cache, node.key, t)
        st1 == [st EXCEPT !.cache = g.cache]
    IN IF g.value # Null
       THEN Settle(st1, t, node.parent, node.slot, node.call, Ok(g.value))
       ELSE RunFetcher([st1 EXCEPT !.nodes = Append(@, node)], t, Len(st1.nodes) + 1)

\* searchMealsByName called for the Promise slot (parent, slot)
SearchMealsByName(st, t, query, parent, slot, call) ==
    IF IsBlank(query)
    THEN Settle(st, t, parent, slot, call, Ok(List(<<>>)))
    ELSE WithCache(st, t, NewNode("search", query, SearchKey(query),
                                  Given(CACHE_TTL_SHORT), parent, slot, call))

\* getCategories
GetCategories(st, t, call) ==
    WithCache(st, t, NewNode("categories", <<>>, CategoriesKey, Given(CACHE_TTL_LONG),
                             0, 0, call))

\* getAreas
GetAreas(st, t, call) ==
    WithCache(st, t, NewNode("areas", <<>>, AreasKey, Given(CACHE_TTL_LONG), 0, 0, call))

GetMealByIdShortTtl(st, t, id, parent, slot, call) ==
    WithCache(st, t, NewNode("meal", id, MealByIdKey(id), Given(CACHE_TTL_SHORT),
                             parent, slot, call))

\* getMealById
GetMealById(st, t, id, parent, slot, call) ==
    WithCache(st, t, NewNode("meal", id, MealByIdKey(id), Given(CACHE_TTL_LONG),
                             parent, slot, call))

\* filterByCategory
FilterByCategory(st, t, category, parent, slot, call) ==
    WithCache(st, t, NewNode("fcat", category, FilterByCategoryKey(category),
                             Given(CACHE_TTL_MEDIUM), parent, slot, call))

\* filterByArea
FilterByArea(st, t, area, parent, slot, call) ==
    WithCache(st, t, NewNode("farea", area, FilterByAreaKey(area),
                             Given(CACHE_TTL_MEDIUM), parent, slot, call))

\* The promises of a Promise.all are created in index order by Array.map.
StartKids(st, t, n, i) ==
    LET node == st.nodes[n]
    IN IF i > Len(node.items) THEN st
       ELSE LET st1 ==
                    IF node.kind = "filtered"
                    THEN IF Branch(node.options) = "category"
                         THEN FilterByCategory(st, t, node.items[i], n, i, node.call)
                         ELSE FilterByArea(st, t, node.items[i], n, i, node.call)
                    ELSE GetMealById(st, t, node.items[i].idMeal, n, i, node.call)
            IN StartKids(st1, t, n, i + 1)

\* The sequence of n copies of x.
RECURSIVE Repeat(_, _)
Repeat(x, n) == IF n = 0 THEN <<>> ELSE Append(Repeat(x, n - 1), x)

\* Node n waits for one promise per item.
Await(st, n, items) ==
    [st EXCEPT !.nodes[n].phase = "join",
               !.nodes[n].items = items,
               !.nodes[n].kids = Repeat(Null, Len(items)),
               !.nodes[n].got = Repeat(FALSE, Len(items))]

\* performFilteredSearch up to its await
PerformFilteredSearch(st, t, n) ==
    LET node == st.nodes[n]
        o == node.options
    IN IF Branch(o) = "search"
       THEN SearchMealsByName(Await(st, n, <<o.searchQuery>>), t, o.searchQuery, n, 1, node.call)
       ELSE IF Branch(o) = "category" THEN StartKids(Await(st, n, o.categories), t, n, 1)
       ELSE IF Branch(o) = "area" THEN StartKids(Await(st, n, o.areas), t, n, 1)
       ELSE Finish(st, t, n, Ok(List(<<>>)))

\* The fetcher of a new node is invoked: an upstream request goes out
\* (counted for the top-level call), or performFilteredSearch runs.
RunFetcher(st, t, n) ==
    LET node == st.nodes[n]
    IN IF node.kind = "filtered"
       THEN PerformFilteredSearch(
                [st EXCEPT !.calls[node.call].branch =
                               IF node.parent = 0 THEN Branch(node.options) ELSE @],
                t, n)
       ELSE [st EXCEPT !.calls[node.call].up[Endpoint(node.kind)] = @ + 1]

\* The response resp to the pending upstream request of node n arrives
\* (for a "raw" node: its fetcher settles as the caller made it).
Resume(st, t, n, resp) ==
    LET node == st.nodes[n]
        r == FetchAPI(resp)
    IN IF node.kind = "raw"
       THEN Finish(st, t, n, IF node.fetcher.resolves THEN Ok(node.fetcher.value)
                             ELSE Fail(node.fetcher.value))
       ELSE IF ~r.ok
       THEN Finish([st EXCEPT !.calls[node.call].errors = Append(@, r.err),
                              !.calls[node.call].failures = Append(@, resp)], t, n, r)
       ELSE IF node.kind = "search"
       THEN Finish([st EXCEPT !.log = @ \cup {[query |-> node.arg, at |-> t,
                                               results |-> MealsOrEmpty(r.v)]}],
                   t, n, Ok(List(MealsOrEmpty(r.v))))
       ELSE IF node.kind = "meal" THEN Finish(st, t, n, Ok(FirstMealOrNull(r.v)))
       ELSE IF node.kind \in {"categories", "areas"}
       THEN Finish(st, t, n, Ok(List(MealsOrEmpty(r.v))))
       ELSE IF MealsOrEmpty(r.v) = <<>> THEN Finish(st, t, n, Ok(List(<<>>)))
       ELSE StartKids(Await(st, n, MealsOrEmpty(r.v)), t, n, 1)

Deliver(st, t, n, resp) ==
    LET node == st.nodes[n]
        st2 == Resume(st, t, n, resp)
    IN IF node.kind # "raw" /\ resp.type = "ok" /\ resp.meals = Null
       THEN [st2 EXCEPT !.calls[node.call].nulls =
                Append(@, [kind |-> node.kind, key |-> node.key,
                           stored |-> IF MapHas(st2.cache, node.key)
                                      THEN <<st2.cache[node.key].data>> ELSE <<>>,
                           returned |-> IF node.parent = 0
                                        THEN <<st2.calls[node.call].result>>
                                        ELSE <<>>])]
       ELSE st2

-----------------------------------------------------------------------------
(* State *)

VARIABLES
    now,      \* Date.now()
    cache,    \* cacheInstance.cache
    nodes,    \* the pending withCache invocations
    calls,    \* the top-level calls made so far, with what each observed
    log,      \* the upstream search responses received so far
    ticks,    \* number of clock advances so far
    last,     \* the latest direct cache operation, with what it returned
    setLog,   \* per key, the latest set not followed by a delete or clear
              \* (arg: the ttl argument as given, ttl: the duration it stands for)
    timer,    \* the interval timer of the module: whether it was registered
              \* when the module was loaded, and when it is next due
    arrivals, \* the upstream responses in the order of their arrival, each
              \* with the call and the key it was for (recorded only in the
              \* specification of resolutions with several names)
    parsed,   \* a meal record, whether parseIngredients was applied to it,
              \* and the list it returned
    page      \* the state of the home page component (pages/index.tsx)

vars == <<now, cache, nodes, calls, log, ticks, last, setLog, timer, arrivals, parsed, page>>

NoEntry == [data |-> Null, expiresAt |-> 0]

NoOp == [op |-> "none", key |-> <<>>, at |-> 0, result |-> Null,
         stored |-> FALSE, entry |-> NoEntry, keys |-> {}, map |-> EmptyMap,
         inFlight |-> {}]

\* An operation on key k at the current time, with the entry, the keys and
\* the whole map it finds stored, and the calls whose fetch is in flight.
Op(op, k, result) ==
    [op |-> op, key |-> k, at |-> now, result |-> result,
     stored |-> MapHas(cache, k),
     entry |-> IF MapHas(cache, k) THEN cache[k] ELSE NoEntry,
     keys |-> DOMAIN cache, map |-> cache,
     inFlight |-> {nodes[n].call : n \in {i \in 1..Len(nodes) : nodes[i].phase = "fetch"}}]

NotParsed == [meal |-> <<>>, called |-> FALSE, ingredients |-> <<>>]

\* The home page before its first render: the initial values of its useState
\* and useRef hooks (index.tsx lines 36-68).  mounted, routerReady, debounce
\* and filterOptions are the component's position: whether its first render
\* was committed, whether router.isReady, whether the debounce timer is
\* running, and whether the Promise.all of loadFilterOptions is pending.
\* loads counts the runs of the loadMeals effect, latest is the call the
\* latest run made (0: none), event the latest event handled, pageWas the
\* value of currentPage when it began, and events the number of user events.
HomePage ==
    [categories |-> <<>>, areas |-> <<>>,
     selectedCategories |-> <<>>, selectedAreas |-> <<>>,
     searchQuery |-> <<>>, debouncedSearchQuery |-> <<>>,
     allMeals |-> <<>>, currentPage |-> 1,
     isLoadingFilters |-> TRUE, isLoadingMeals |-> FALSE,
     error |-> Null, isInitialized |-> FALSE,
     prevFilters |-> [searchQuery |-> <<>>, categories |-> <<>>, areas |-> <<>>],
     mounted |-> FALSE, routerReady |-> FALSE, debounce |-> FALSE,
     filterOptions |-> "none", loads |-> 0, latest |-> 0, event |-> "none",
     pageWas |-> 1, events |-> 0]

\* The period of the cleanup timer.
SWEEP_INTERVAL == 10 * 60 * 1000

\* The module as loaded at time 0, window telling whether
\* typeof window !== "undefined": only then is the cleanup timer registered.
Loaded(window) ==
    /\ now = 0
    /\ cache = EmptyMap
    /\ nodes = <<>>
    /\ calls = <<>>
    /\ log = {}
    /\ ticks = 0
    /\ last = NoOp
    /\ setLog = EmptyMap
    /\ timer = [registered |-> window, due |-> IF window THEN SWEEP_INTERVAL ELSE 0]
    /\ arrivals = <<>>
    /\ page = HomePage

\* The module loaded in the browser, where the pages call it.  The
\* specifications of the operations below span less than SWEEP_INTERVAL,
\* so the timer does not fire in them.
Init == Loaded(TRUE) /\ parsed = NotParsed

-----------------------------------------------------------------------------
(* Direct cache operations: getCached, setCached, hasCached, deleteCached,  *)
(* clearCache, cleanupCache, getCacheStats                                 *)

Keys == {<<"k","1">>, <<"k","2">>}

Values == {Str("v1"), Null}

Ttls == {Omitted, Given(0), Given(2)}

TtlMs(ttl) == IF ttl = Omitted THEN DEFAULT_TTL ELSE ttl[1]

GetCached(k) ==
    /\ cache' = CacheGet(cache, k, now).cache
    /\ last' = Op("get", k, CacheGet(cache, k, now).value)
    /\ UNCHANGED <<page, parsed, arrivals, timer, now, nodes, calls, log, ticks, setLog>>

SetCached(k, data, ttl) ==
    /\ cache' = CacheSet(cache, k, data, ttl, now)
    /\ last' = Op("set", k, Null)
    /\ setLog' = MapSet(setLog, k, [data |-> data, ttl |-> TtlMs(ttl), at |-> now,
                                    arg |-> ttl])
    /\ UNCHANGED <<page, parsed, arrivals, timer, now, nodes, calls, log, ticks>>

HasCached(k) ==
    /\ cache' = CacheHas(cache, k, now).cache
    /\ last' = Op("has", k, [bool |-> CacheHas(cache, k, now).value])
    /\ UNCHANGED <<page, parsed, arrivals, timer, now, nodes, calls, log, ticks, setLog>>

DeleteCached(k) ==
    /\ cache' = CacheDelete(cache, k).cache
    /\ last' = Op("delete", k, [bool |-> CacheDelete(cache, k).value])
    /\ setLog' = MapDelete(setLog, k)
    /\ UNCHANGED <<page, parsed, arrivals, timer, now, nodes, calls, log, ticks>>

ClearCache ==
    /\ cache' = CacheClear(cache)
    /\ last' = Op("clear", <<>>, Null)
    /\ setLog' = EmptyMap
    /\ UNCHANGED <<page, parsed, arrivals, timer, now, nodes, calls, log, ticks>>

CleanupCache ==
    /\ cache' = CacheCleanup(cache, now)
    /\ last' = Op("cleanup", <<>>, Null)
    /\ UNCHANGED <<page, parsed, arrivals, timer, now, nodes, calls, log, ticks, setLog>>

GetCacheStats ==
    /\ last' = Op("stats", <<>>, CacheStats(cache))
    /\ UNCHANGED <<page, parsed, arrivals, timer, now, cache, nodes, calls, log, ticks, setLog>>

\* One millisecond passes.
TickMs ==
    /\ now < MaxNow
    /\ now' = now + 1
    /\ UNCHANGED <<page, parsed, arrivals, timer, cache, nodes, calls, log, ticks, last, setLog>>

NextCache ==
    \/ \E k \in Keys : GetCached(k)
    \/ \E k \in Keys, data \in Values, ttl \in Ttls : SetCached(k, data, ttl)
    \/ \E k \in Keys : HasCached(k)
    \/ \E k \in Keys : DeleteCached(k)
    \/ ClearCache
    \/ CleanupCache
    \/ GetCacheStats
    \/ TickMs

\* The cache used directly through its exported functions.
SpecCache == Init /\ [][NextCache]_vars

-----------------------------------------------------------------------------
(* Asynchronous calls *)

State == [cache |-> cache, nodes |-> nodes, calls |-> calls, log |-> log,
          setLog |-> setLog]

\* The step ends in state st.
Becomes(st) ==
    /\ cache' = st.cache
    /\ nodes' = st.nodes
    /\ calls' = st.calls
    /\ log' = st.log
    /\ setLog' = st.setLog

\* Time passes between two turns of the event loop.
Tick(ms) ==
    /\ ticks < MaxTicks
    /\ ticks' = ticks + 1
    /\ now' = now + ms
    /\ UNCHANGED <<page, parsed, arrivals, timer, cache, nodes, calls, log, last, setLog>>

(* withCache called with a caller-made fetcher, as the cache tests do *)

WcKeys == {<<"k","1">>}

\* What a fetcher settles with: a value (null included) or an error.
Fetchers ==
    {[resolves |-> TRUE, value |-> Str("a")],
     [resolves |-> TRUE, value |-> Str("b")],
     [resolves |-> TRUE, value |-> Null],
     [resolves |-> FALSE, value |-> [message |-> "Fetch failed"]]}

CallWithCache(k, fetcher, ttl) ==
    /\ Len(calls) < MaxCalls
    /\ LET c == Len(calls) + 1
           call == NewCall("withCache", k, ttl, NoOptions, NoOptions, fetcher, now, State)
           node == [NewNode("raw", <<>>, k, ttl, 0, 0, c) EXCEPT !.fetcher = fetcher]
       IN Becomes(WithCache([State EXCEPT !.calls = Append(@, call)], now, node))
    /\ UNCHANGED <<page, parsed, arrivals, timer, now, ticks, last>>

\* The promise returned by the fetcher of pending call node n settles.
FetcherSettles(n) ==
    /\ nodes[n].phase = "fetch"
    /\ nodes[n].kind = "raw"
    /\ Becomes(Deliver(State, now, n, [type |-> "ok", meals |-> Null]))
    /\ UNCHANGED <<page, parsed, arrivals, timer, now, ticks, last>>

NextWithCache ==
    \/ \E k \in WcKeys, fetcher \in Fetchers, ttl \in Ttls : CallWithCache(k, fetcher, ttl)
    \/ \E n \in 1..Len(nodes) : FetcherSettles(n)
    \/ Tick(1)

\* withCache with arbitrary fetchers.
SpecWithCache == Init /\ [][NextWithCache]_vars

(* getFilteredMeals against an upstream that may answer anything *)

B == <<"B">>
C == <<"C">>
I == <<"I">>
M == <<"M">>

FullMeal(id, name, category, area) ==
    [idMeal |-> id, strMeal |-> name, strMealThumb |-> name \o ".jpg",
     strCategory |-> category, strArea |-> area, strInstructions |-> "..."]

Meal1 == FullMeal(<<"1">>, "one", B, I)
Meal2 == FullMeal(<<"2">>, "two", B, M)
Meal3 == FullMeal(<<"3">>, "three", C, I)
\* The record of meal 1 as upstream has it after an edit (name and area changed).
Meal1Edited == FullMeal(<<"1">>, "uno", B, M)

\* A record of the filter endpoints: idMeal, strMeal and strMealThumb only.
Partial(meal) ==
    [idMeal |-> meal.idMeal, strMeal |-> meal.strMeal,
     strMealThumb |-> meal.strMealThumb]

\* The payloads upstream may send for a request of each kind.
Payloads(node) ==
    CASE node.kind = "search" ->
            {Null, List(<<Meal1, Meal2, Meal3>>), List(<<Meal1, Meal1>>)}
      [] node.kind = "meal" ->
            {Null} \cup {List(<<m>>) : m \in {x \in {Meal1, Meal1Edited, Meal2, Meal3} : x.idMeal = node.arg}}
      [] node.kind \in {"fcat", "farea"} ->
            {Null, List(<<Partial(Meal1)>>), List(<<Partial(Meal2), Partial(Meal1)>>)}
      [] node.kind = "categories" ->
            {Null, List(<<[strCategory |-> B], [strCategory |-> C]>>)}
      [] node.kind = "areas" ->
            {Null, List(<<[strArea |-> I], [strArea |-> M]>>)}

\* The responses a node may get: none unless it has a request pending.  Every
\* endpoint may answer with a non-success status; the transport failure is
\* explored on the search endpoint.
Responses(node) ==
    IF node.phase # "fetch" \/ node.kind = "raw" THEN {}
    ELSE {[type |-> "ok", meals |-> p] : p \in Payloads(node)}
         \cup {[type |-> "status", status |-> 500, statusText |-> "Internal Server Error"]}
         \cup IF node.kind = "search"
              THEN {[type |-> "throw",
                     error |-> [name |-> "Error", message |-> "Network error"]]}
              ELSE IF node.kind = "categories"
              THEN {[type |-> "json",
                     error |-> [name |-> "SyntaxError", message |-> "Unexpected token"]]}
              ELSE {}

Request(q, cats, areas) == [searchQuery |-> q, categories |-> cats, areas |-> areas]

\* The filter requests made: no filter, blank and plain queries, one or two
\* categories or areas in either order, and combinations.
Requests ==
    {Request(<<>>, <<>>, <<>>), Request(<<" ">>, <<>>, <<>>),
     Request(<<" ">>, <<B>>, <<>>),
     Request(<<"b">>, <<B>>, <<I>>), Request(<<"B">>, <<>>, <<>>),
     Request(<<>>, <<C, B>>, <<>>), Request(<<>>, <<B, C>>, <<>>),
     Request(<<>>, <<B>>, <<I>>),
     Request(<<>>, <<>>, <<M, I>>)}

Pending == {n \in 1..Len(nodes) : nodes[n].phase = "fetch"}

RECURSIVE Sent(_)
\* The number of upstream requests the first c calls have caused.
Sent(c) ==
    IF c = 0 THEN 0
    ELSE Sent(c - 1) + calls[c].up.search + calls[c].up.lookup
         + calls[c].up.category + calls[c].up.area + calls[c].up.list

\* The number of upstream requests answered so far.
Answered == Sent(Len(calls)) - Cardinality(Pending)

CallGetFilteredMeals(options) ==
    /\ Len(calls) < MaxCalls
    /\ Cardinality(Pending) <= MaxOverlap
    /\ LET c == Len(calls) + 1
           k == FilteredMealsKey(options)
           call == NewCall("getFilteredMeals", k.key, Given(CACHE_TTL_MEDIUM), options,
                           k.options, NoFetcher, now, State)
           node == [NewNode("filtered", <<>>, k.key, Given(CACHE_TTL_MEDIUM), 0, 0, c)
                       EXCEPT !.options = k.options]
       IN Becomes(WithCache([State EXCEPT !.calls = Append(@, call)], now, node))
    /\ UNCHANGED <<page, parsed, arrivals, timer, now, ticks, last>>

CallGetCategories ==
    /\ Len(calls) < MaxCalls
    /\ Cardinality(Pending) <= MaxOverlap
    /\ LET call == NewCall("getCategories", CategoriesKey, Given(CACHE_TTL_LONG),
                           NoOptions, NoOptions, NoFetcher, now, State)
       IN Becomes(GetCategories([State EXCEPT !.calls = Append(@, call)], now,
                                Len(calls) + 1))
    /\ UNCHANGED <<page, parsed, arrivals, timer, now, ticks, last>>

CallGetAreas ==
    /\ Len(calls) < MaxCalls
    /\ Cardinality(Pending) <= MaxOverlap
    /\ LET call == NewCall("getAreas", AreasKey, Given(CACHE_TTL_LONG),
                           NoOptions, NoOptions, NoFetcher, now, State)
       IN Becomes(GetAreas([State EXCEPT !.calls = Append(@, call)], now, Len(calls) + 1))
    /\ UNCHANGED <<page, parsed, arrivals, timer, now, ticks, last>>

\* The upstream response to the pending request of node n arrives.
RespondWithin(limit, n, resp) ==
    /\ nodes[n].phase = "fetch"
    /\ nodes[n].kind # "raw"
    /\ Answered < limit
    /\ Becomes(Deliver(State, now, n, resp))
    /\ UNCHANGED <<timer, now, ticks, last>>

Respond(n, resp) ==
    /\ RespondWithin(MaxResponses, n, resp)
    /\ UNCHANGED <<page, parsed, arrivals>>

\* Long enough passes for search entries to expire, or for search and filter
\* entries to expire; not long enough for meal entries.
\* The queries of direct searches: one term in both letter cases.
SearchQueries == {<<"b">>, <<"B">>}

CallSearchMealsByName(query) ==
    /\ Len(calls) < MaxCalls
    /\ Cardinality(Pending) <= MaxOverlap
    /\ LET call == NewCall("searchMealsByName", SearchKey(query), Given(CACHE_TTL_SHORT),
                           Request(query, <<>>, <<>>), Request(query, <<>>, <<>>),
                           NoFetcher, now, State)
       IN Becomes(SearchMealsByName([State EXCEPT !.calls = Append(@, call)], now,
                                    query, 0, 0, Len(calls) + 1))
    /\ UNCHANGED <<page, parsed, arrivals, timer, now, ticks, last>>

Wait ==
    /\ ticks < MaxWaits
    /\ \E ms \in {CACHE_TTL_SHORT + 1, CACHE_TTL_MEDIUM + 1} : Tick(ms)

NextApi ==
    \/ \E options \in Requests : CallGetFilteredMeals(options)
    \/ \E query \in SearchQueries : CallSearchMealsByName(query)
    \/ CallGetCategories
    \/ CallGetAreas
    \/ \E n \in 1..Len(nodes) : \E resp \in Responses(nodes[n]) : Respond(n, resp)
    \/ Wait

\* The resolver with its upstream.
SpecApi == Init /\ [][NextApi]_vars

-----------------------------------------------------------------------------
(* Resolutions with several selected names, answered in any order *)

ResolveRequests ==
    {Request(<<>>, <<C, B>>, <<>>), Request(<<>>, <<B>>, <<I>>),
     Request(<<>>, <<>>, <<M, I>>)}

\* An upstream response arrives, in any order among the pending requests.
Arrive(n, resp) ==
    /\ RespondWithin(MaxArrivals, n, resp)
    /\ arrivals' = Append(arrivals, [call |-> nodes[n].call, kind |-> nodes[n].kind,
                                      key |-> nodes[n].key, slot |-> nodes[n].slot,
                                      resp |-> resp])
    /\ UNCHANGED <<page, parsed>>

NextResolve ==
    \/ \E options \in ResolveRequests : CallGetFilteredMeals(options)
    \/ \E n \in 1..Len(nodes) : \E resp \in Responses(nodes[n]) : Arrive(n, resp)

SpecResolve == Init /\ [][NextResolve]_vars

-----------------------------------------------------------------------------
(* parseIngredients applied to meal records *)

\* The decimal digits of a slot number.
Digits(i) == IF i < 10 THEN <<Digit[i + 1]>> ELSE <<Digit[(i \div 10) + 1], Digit[(i % 10) + 1]>>

\* What a slot without ingredient holds, and what a measure may be.
BlankIngredients == {Str(<<>>), Str(<<" ", "\t">>), Null, Undefined}

Measures == {Str(<<" ", "1", "g", " ">>), Str(<<>>), Null, Undefined}

\* The meal whose slots in blanks hold blank (with a measure all the same)
\* and whose other slots hold an ingredient named after the slot, padded
\* with white space, and the measure.
MealWith(blanks, blank, measure) ==
    [i \in 1..SLOTS |->
        IF i \in blanks
        THEN [ingredient |-> blank, measure |-> Str(<<"1", " ", "c", "u", "p">>)]
        ELSE [ingredient |-> Str(<<" ", "n">> \o Digits(i) \o <<"\t">>),
              measure |-> measure]]

\* The sets of at most MaxBlank slots.
BlankSets ==
    {{}} \cup {{i} : i \in 1..SLOTS}
         \cup (IF MaxBlank >= 2 THEN {{i, j} : i, j \in 1..SLOTS} ELSE {})
         \cup (IF MaxBlank >= 3 THEN {{1, j, SLOTS} : j \in 1..SLOTS} ELSE {})

\* Some meal record is at hand.
InitParse ==
    /\ Loaded(TRUE)
    /\ \E blanks \in BlankSets, blank \in BlankIngredients, measure \in Measures :
           parsed = [meal |-> MealWith(blanks, blank, measure), called |-> FALSE,
                     ingredients |-> <<>>]

CallParseIngredients ==
    /\ ~parsed.called
    /\ parsed' = [parsed EXCEPT !.called = TRUE,
                                !.ingredients = ParseIngredients(parsed.meal)]
    /\ UNCHANGED <<now, cache, nodes, calls, log, ticks, last, setLog, timer, arrivals, page>>

NextParse == CallParseIngredients

SpecParse == InitParse /\ [][NextParse]_vars

-----------------------------------------------------------------------------
(* The cache over several periods of its cleanup timer *)

\* The module is loaded in a browser or in a process without window.
InitSweep == (\E window \in BOOLEAN : Loaded(window)) /\ parsed = NotParsed

\* setInterval(() => cleanupCache(), 10 * 60 * 1000): the callback runs once
\* per period, at or after the time it is due.
SweepTimerFires ==
    /\ timer.registered
    /\ now >= timer.due
    /\ cache' = CacheCleanup(cache, now)
    /\ last' = Op("cleanup", <<>>, Null)
    /\ timer' = [timer EXCEPT !.due = @ + SWEEP_INTERVAL]
    /\ UNCHANGED <<page, parsed, arrivals, now, nodes, calls, log, ticks, setLog>>

\* The clock advances by 1 ms (up to MaxNow ms into each period) or to the
\* start of the next period.
TimePasses ==
    /\ now < MaxSweeps * SWEEP_INTERVAL
    /\ \E t \in {now + 1, (now \div SWEEP_INTERVAL + 1) * SWEEP_INTERVAL} :
           /\ t % SWEEP_INTERVAL <= MaxNow
           /\ now' = t
    /\ UNCHANGED <<page, parsed, arrivals, cache, nodes, calls, log, ticks, last, setLog, timer>>

NextSweep ==
    \/ \E k \in Keys, ttl \in Ttls : SetCached(k, Str("v1"), ttl)
    \/ \E k \in Keys : GetCached(k)
    \/ SweepTimerFires
    \/ TimePasses

\* The timer callback runs when it is due and the clock keeps advancing;
\* nothing obliges the application to read or write the cache.
SpecSweep ==
    InitSweep /\ [][NextSweep]_vars /\ WF_vars(SweepTimerFires) /\ WF_vars(TimePasses)

-----------------------------------------------------------------------------
(* withCache while the cache is cleared or keys are deleted *)

\* Calls with caller-made fetchers on two keys, interleaved with clearCache
\* and deleteCached.
NextClear ==
    \/ \E k \in Keys, fetcher \in Fetchers : CallWithCache(k, fetcher, Omitted)
    \/ \E n \in 1..Len(nodes) : FetcherSettles(n)
    \/ \E k \in Keys : DeleteCached(k)
    \/ ClearCache

SpecClear == Init /\ [][NextClear]_vars

-----------------------------------------------------------------------------
(* Filter requests whose query and names contain the characters the        *)
(* combined key is built with                                              *)

\* Requests made with a free-text query or with names taken from a URL: a
\* query and a category, the query that spells both, two categories, and
\* the one name that spells both.
KeyRequests ==
    {Request(<<"b">>, <<B>>, <<>>),
     Request(<<"b", "|", "c", ":", "B">>, <<>>, <<>>),
     Request(<<>>, <<B, C>>, <<>>),
     Request(<<>>, << <<"B", ",", "C">> >>, <<>>)}

NextKeys ==
    \/ \E options \in KeyRequests : CallGetFilteredMeals(options)
    \/ \E n \in 1..Len(nodes) : \E resp \in Responses(nodes[n]) : Respond(n, resp)

SpecKeys == Init /\ [][NextKeys]_vars

-----------------------------------------------------------------------------
(* The home page (pages/index.tsx).  A step is one turn of the event loop:  *)
(* an event handler, a timer callback or the arrival of a response with the *)
(* promise continuations it resumes, followed by the renders it causes and  *)
(* the effects those renders run.  A world w is [st, page]: the state st of *)
(* the API layer and the state of the component.  The router is the         *)
(* environment: it becomes ready once, with the query of the URL the page   *)
(* was opened with.                                                         *)

\* The user events handled, and the runs of the loadMeals effect, explored.
MaxEvents == 3

MaxLoads == 3

\* Array.prototype.filter((x) => x !== name)
RECURSIVE Without(_, _)
Without(a, name) ==
    IF a = <<>> THEN <<>>
    ELSE IF a[1] = name THEN Without(Tail(a), name)
    ELSE <<a[1]>> \o Without(Tail(a), name)

\* prev.includes(name) ? prev.filter((x) => x !== name) : [...prev, name]
Toggle(prev, name) ==
    IF Includes(prev, name) THEN Without(prev, name) ELSE Append(prev, name)

\* err instanceof Error ? err.message : fallback
MessageOf(err, fallback) ==
    [message |-> IF InstanceOfError(err) THEN err.message ELSE fallback]

\* The "reset to page 1" effect comparing only the selected names.
ResetPageIgnoresSearch(p) ==
    IF ~p.isInitialized THEN p
    ELSE LET prev == p.prevFilters
             categoriesChanged ==
                 \/ Len(prev.categories) # Len(p.selectedCategories)
                 \/ ~\A i \in 1..Len(prev.categories) :
                        Includes(p.selectedCategories, prev.categories[i])
             areasChanged ==
                 \/ Len(prev.areas) # Len(p.selectedAreas)
                 \/ ~\A i \in 1..Len(prev.areas) :
                        Includes(p.selectedAreas, prev.areas[i])
         IN IF categoriesChanged \/ areasChanged
            THEN [p EXCEPT !.currentPage = 1,
                           !.prevFilters = [searchQuery |-> p.debouncedSearchQuery,
                                            categories |-> p.selectedCategories,
                                            areas |-> p.selectedAreas]]
            ELSE p

\* The "reset to page 1" effect (lines 194-221): once initialized, it compares
\* the filters with those of prevFiltersRef and, when they differ, sets
\* currentPage to 1 and stores copies of the filters in the ref.
ResetPage(p) ==
    IF ~p.isInitialized THEN p
    ELSE LET prev == p.prevFilters
             searchChanged == prev.searchQuery # p.debouncedSearchQuery
             categoriesChanged ==
                 \/ Len(prev.categories) # Len(p.selectedCategories)
                 \/ ~\A i \in 1..Len(prev.categories) :
                        Includes(p.selectedCategories, prev.categories[i])
             areasChanged ==
                 \/ Len(prev.areas) # Len(p.selectedAreas)
                 \/ ~\A i \in 1..Len(prev.areas) :
                        Includes(p.selectedAreas, prev.areas[i])
         IN IF searchChanged \/ categoriesChanged \/ areasChanged
            THEN [p EXCEPT !.currentPage = 1,
                           !.prevFilters = [searchQuery |-> p.debouncedSearchQuery,
                                            categories |-> p.selectedCategories,
                                            areas |-> p.selectedAreas]]
            ELSE p

\* The continuation of loadMeals after its await (lines 248-259), for the
\* call as it settled: setAllMeals(meals), or setError and setAllMeals([]),
\* then setIsLoadingMeals(false).
MealsLoaded(p, call) ==
    IF call.status = "resolved"
    THEN [p EXCEPT !.allMeals = call.result.list, !.isLoadingMeals = FALSE]
    ELSE [p EXCEPT !.error = MessageOf(call.result,
                                       "Failed to load meals. Please try again."),
                   !.allMeals = <<>>, !.isLoadingMeals = FALSE]

\* The continuation of loadFilterOptions after its await (lines 163-175):
\* Promise.all rejects with the first rejection and resolves when both
\* getCategories (call 1) and getAreas (call 2) have resolved.
FilterOptionsLoaded(p, all, c) ==
    IF p.filterOptions # "pending" THEN p
    ELSE IF all[c].status = "rejected"
    THEN [p EXCEPT !.error = MessageOf(all[c].result,
                       "Failed to load filter options. Please refresh the page."),
                   !.isLoadingFilters = FALSE, !.filterOptions = "settled"]
    ELSE IF all[1].status = "resolved" /\ all[2].status = "resolved"
    THEN [p EXCEPT !.categories = all[1].result.list, !.areas = all[2].result.list,
                   !.isLoadingFilters = FALSE, !.filterOptions = "settled"]
    ELSE p

\* The continuations resumed in world w by the settling of the calls in
\* settled (at most one call settles in a turn).
Continue(w, settled) ==
    IF settled = {} THEN w
    ELSE LET c == CHOOSE x \in settled : TRUE
             call == w.st.calls[c]
         IN [w EXCEPT !.page = IF call.op = "getFilteredMeals"
                                THEN MealsLoaded(w.page, call)
                                ELSE FilterOptionsLoaded(w.page, w.st.calls, c)]

\* The calls of world w that settled since they were pending in before.
Settled(before, w) ==
    {c \in 1..Len(w.st.calls) :
        /\ w.st.calls[c].status # "pending"
        /\ (c > Len(before) \/ before[c].status = "pending")}

\* The loadMeals effect (lines 226-262): with nothing selected it empties the
\* list; otherwise it calls getFilteredMeals with the arrays of the state
\* (which the call sorts in place) and awaits it.  A call answered from the
\* cache resumes the effect within the same turn.
LoadMeals(w, t) ==
    LET p == [w.page EXCEPT !.isLoadingMeals = TRUE, !.error = Null, !.loads = @ + 1]
    IN IF /\ p.debouncedSearchQuery = <<>>
          /\ Len(p.selectedCategories) = 0
          /\ Len(p.selectedAreas) = 0
       THEN [w EXCEPT !.page = [p EXCEPT !.allMeals = <<>>, !.isLoadingMeals = FALSE,
                                         !.latest = 0]]
       ELSE LET options == [searchQuery |-> p.debouncedSearchQuery,
                            categories |-> p.selectedCategories,
                            areas |-> p.selectedAreas]
                c == Len(w.st.calls) + 1
                k == FilteredMealsKey(options)
                call == NewCall("getFilteredMeals", k.key, Given(CACHE_TTL_MEDIUM),
                                options, k.options, NoFetcher, t, w.st)
                node == [NewNode("filtered", <<>>, k.key, Given(CACHE_TTL_MEDIUM),
                                 0, 0, c)
                            EXCEPT !.options = k.options]
                st1 == WithCache([w.st EXCEPT !.calls = Append(@, call)], t, node)
                p1 == [p EXCEPT !.selectedCategories = k.options.categories,
                                !.selectedAreas = k.options.areas,
                                !.latest = c]
            IN Continue([st |-> st1, page |-> p1],
                        Settled(w.st.calls, [st |-> st1, page |-> p1]))

\* The loadFilterOptions effect (lines 158-180), run by the first render.
LoadFilterOptions(w, t) ==
    LET p == [w.page EXCEPT !.isLoadingFilters = TRUE, !.error = Null,
                            !.filterOptions = "pending"]
        c == Len(w.st.calls) + 1
        categories == NewCall("getCategories", CategoriesKey, Given(CACHE_TTL_LONG),
                              NoOptions, NoOptions, NoFetcher, t, w.st)
        st1 == GetCategories([w.st EXCEPT !.calls = Append(@, categories)], t, c)
        areas == NewCall("getAreas", AreasKey, Given(CACHE_TTL_LONG),
                         NoOptions, NoOptions, NoFetcher, t, st1)
        st2 == GetAreas([st1 EXCEPT !.calls = Append(@, areas)], t, c + 1)
        w2 == [st |-> st2, page |-> p]
        w3 == Continue(w2, Settled(w.st.calls, w2) \cap {c})
    IN Continue(w3, Settled(w.st.calls, w2) \cap {c + 1})

\* The effects run after a render in which the filters (the debounced query
\* or one of the arrays of selected names) or isInitialized changed, in the
\* order of their declaration: the reset effect depends on all four, the
\* loadMeals effect on the filters.
Commit(w, t, filters, initialized) ==
    LET w1 == IF filters \/ initialized
              THEN [w EXCEPT !.page = ResetPage(w.page)]
              ELSE w
    IN IF filters THEN LoadMeals(w1, t) ELSE w1

\* The step ends in world w.
Shows(w) ==
    /\ Becomes(w.st)
    /\ page' = w.page

\* The event named was handled and left the page in state p.
Handled(p, name) ==
    [p EXCEPT !.event = name, !.pageWas = page.currentPage, !.events = @ + 1]

\* The first render and its effects.  router.isReady is false, so the
\* initialization effect returns; the debounce effect starts its timer.
Mount ==
    /\ ~page.mounted
    /\ LET p == [page EXCEPT !.mounted = TRUE, !.debounce = TRUE, !.event = "mount",
                             !.pageWas = page.currentPage]
           w1 == LoadFilterOptions([st |-> State, page |-> p], now)
       IN Shows(Commit(w1, now, TRUE, FALSE))
    /\ UNCHANGED <<now, ticks, last, timer, arrivals, parsed>>

\* The queries of the URLs the page is opened with: none, a page number, a
\* category with a page number, a search term.
Urls ==
    {[q |-> <<>>, categories |-> <<>>, areas |-> <<>>, page |-> 0],
     [q |-> <<>>, categories |-> <<>>, areas |-> <<>>, page |-> 2],
     [q |-> <<>>, categories |-> <<B>>, areas |-> <<>>, page |-> 2],
     [q |-> <<"b">>, categories |-> <<>>, areas |-> <<>>, page |-> 0]}

\* The initialization effect (lines 73-110) when router.isReady becomes true.
RouterReady(url) ==
    /\ page.mounted
    /\ ~page.routerReady
    /\ LET p == [page EXCEPT
                    !.routerReady = TRUE,
                    !.searchQuery = IF url.q # <<>> THEN url.q ELSE @,
                    !.debouncedSearchQuery = IF url.q # <<>> THEN url.q ELSE @,
                    !.debounce = @ \/ (url.q # <<>> /\ url.q # page.searchQuery),
                    !.selectedCategories =
                        IF url.categories # <<>> THEN url.categories ELSE @,
                    !.selectedAreas = IF url.areas # <<>> THEN url.areas ELSE @,
                    !.currentPage = IF url.page > 0 THEN url.page ELSE @,
                    !.isInitialized = TRUE,
                    !.event = "router",
                             !.pageWas = page.currentPage]
           filters == \/ (url.q # <<>> /\ url.q # page.debouncedSearchQuery)
                      \/ url.categories # <<>>
                      \/ url.areas # <<>>
       IN /\ (filters => page.loads < MaxLoads)
          /\ Shows(Commit([st |-> State, page |-> p], now, filters,
                          ~page.isInitialized))
    /\ UNCHANGED <<now, ticks, last, timer, arrivals, parsed>>

\* The terms typed into the search bar.
Terms == {<<>>, <<"b">>}

\* handleSearch: setSearchQuery(query); the debounce effect restarts its timer.
HandleSearch(query) ==
    /\ page.mounted
    /\ page.events < MaxEvents
    /\ query # page.searchQuery
    /\ page' = Handled([page EXCEPT !.searchQuery = query, !.debounce = TRUE], "search")
    /\ UNCHANGED <<now, cache, nodes, calls, log, ticks, last, setLog, timer,
                   arrivals, parsed>>

\* The callback of the debounce timer (lines 185-191), SEARCH_DEBOUNCE_DELAY
\* after the latest change of searchQuery: setDebouncedSearchQuery(searchQuery).
DebounceFires ==
    /\ page.debounce
    /\ LET p == [page EXCEPT !.debouncedSearchQuery = page.searchQuery,
                             !.debounce = FALSE, !.event = "debounce",
                             !.pageWas = page.currentPage]
           filters == page.searchQuery # page.debouncedSearchQuery
       IN /\ (filters => page.loads < MaxLoads)
          /\ Shows(Commit([st |-> State, page |-> p], now, filters, FALSE))
    /\ UNCHANGED <<now, ticks, last, timer, arrivals, parsed>>

\* The names of the filter options shown by the filter panel.
Shown(options, field) ==
    IF page.isLoadingFilters THEN {}
    ELSE {options[i][field] : i \in 1..Len(options)}

\* The options the user toggles.
ToggledCategories == {B}

ToggledAreas == {I}

\* The selection was replaced by the arrays given: the filters changed.
Select(categories, areas, name) ==
    /\ page.events < MaxEvents
    /\ page.loads < MaxLoads
    /\ Shows(Commit([st |-> State,
                     page |-> Handled([page EXCEPT !.selectedCategories = categories,
                                                   !.selectedAreas = areas], name)],
                    now, TRUE, FALSE))
    /\ UNCHANGED <<now, ticks, last, timer, arrivals, parsed>>

\* handleCategoryToggle, for a checkbox of the filter panel
HandleCategoryToggle(category) ==
    /\ category \in Shown(page.categories, "strCategory")
    /\ Select(Toggle(page.selectedCategories, category), page.selectedAreas, "category")

\* handleAreaToggle
HandleAreaToggle(area) ==
    /\ area \in Shown(page.areas, "strArea")
    /\ Select(page.selectedCategories, Toggle(page.selectedAreas, area), "area")

\* handleRemoveCategory, for a chip of the active filters
HandleRemoveCategory(category) ==
    /\ Includes(page.selectedCategories, category)
    /\ Select(Without(page.selectedCategories, category), page.selectedAreas,
              "removeCategory")

\* handleRemoveArea
HandleRemoveArea(area) ==
    /\ Includes(page.selectedAreas, area)
    /\ Select(page.selectedCategories, Without(page.selectedAreas, area), "removeArea")

\* handleClearFilters, for the "Clear All" button of the filter panel
HandleClearFilters ==
    /\ ~page.isLoadingFilters
    /\ Len(page.selectedCategories) > 0 \/ Len(page.selectedAreas) > 0
    /\ Select(<<>>, <<>>, "clear")

\* The upstream response to the pending request of node n arrives and the
\* continuations of the call it settles run.
PageResponse(n, resp) ==
    /\ nodes[n].phase = "fetch"
    /\ LET w == [st |-> Deliver(State, now, n, resp),
                 page |-> [page EXCEPT !.event = "response",
                             !.pageWas = page.currentPage]]
       IN Shows(Continue(w, Settled(calls, w)))
    /\ UNCHANGED <<now, ticks, last, timer, arrivals, parsed>>

\* The number of meals a page of results shows.
ITEMS_PER_PAGE == 12

\* Math.ceil(allMeals.length / ITEMS_PER_PAGE)
TotalPages == (Len(page.allMeals) + ITEMS_PER_PAGE - 1) \div ITEMS_PER_PAGE

\* handlePageChange, for a button of the pagination, which is rendered when
\* the meals are loaded, the current page shows some and there is more than
\* one page: setCurrentPage(page).
HandlePageChange(number) ==
    /\ page.events < MaxEvents
    /\ ~page.isLoadingMeals
    /\ (page.currentPage - 1) * ITEMS_PER_PAGE < Len(page.allMeals)
    /\ TotalPages > 1
    /\ number \in 1..TotalPages
    /\ number # page.currentPage
    /\ page' = Handled([page EXCEPT !.currentPage = number], "page")
    /\ UNCHANGED <<now, cache, nodes, calls, log, ticks, last, setLog, timer,
                   arrivals, parsed>>

\* A search result that fills more than one page.
ManyMeals == [i \in 1..(ITEMS_PER_PAGE + 1) |-> FullMeal(Digits(i), "meal", B, I)]

\* The responses explored on the page: one list or a failure per request,
\* and for a search also the long list.
PageResponses(node) ==
    {resp \in Responses(node) :
        resp.type = "ok" =>
            /\ resp.meals # Null
            /\ Len(resp.meals.list) = 1 \/ node.kind \in {"search", "categories", "areas"}}
    \cup IF node.phase = "fetch" /\ node.kind = "search"
         THEN {[type |-> "ok", meals |-> List(ManyMeals)]}
         ELSE {}

NextPage ==
    \/ Mount
    \/ \E url \in Urls : RouterReady(url)
    \/ \E query \in Terms : HandleSearch(query)
    \/ DebounceFires
    \/ \E category \in ToggledCategories : HandleCategoryToggle(category)
    \/ \E area \in ToggledAreas : HandleAreaToggle(area)
    \/ \E category \in ToggledCategories : HandleRemoveCategory(category)
    \/ \E area \in ToggledAreas : HandleRemoveArea(area)
    \/ HandleClearFilters
    \/ \E number \in 1..2 : HandlePageChange(number)
    \/ \E n \in 1..Len(nodes) : \E resp \in PageResponses(nodes[n]) : PageResponse(n, resp)

\* The home page with its router, its user and the upstream of its calls.
SpecPage == Init /\ [][NextPage]_vars

-----------------------------------------------------------------------------
(* Properties of the cache used directly (SpecCache) *)

\* The latest operation is a get of a key whose latest set (not followed by a
\* delete or clear) had the given duration.
GetAfterSet(k) == last.op = "get" /\ last.key = k /\ MapHas(setLog, k)

\* C1 (as stated): for t > 0, get(k) right after set(k, v, t) returns v, and
\* get(k) once at least t has elapsed since the set returns absent.
C1_AbsentFromTtl ==
    \A k \in Keys :
        GetAfterSet(k) /\ setLog[k].ttl > 0 =>
            /\ last.at = setLog[k].at => last.result = setLog[k].data
            /\ last.at >= setLog[k].at + setLog[k].ttl => last.result = Null

\* C1 (amended): for t > 0, get(k) returns v as long as no more than t has
\* elapsed since set(k, v, t), the instant t after the set included, and
\* returns absent once more than t has elapsed.
C1_AbsentAfterTtl ==
    \A k \in Keys :
        GetAfterSet(k) /\ setLog[k].ttl > 0 =>
            /\ last.at <= setLog[k].at + setLog[k].ttl => last.result = setLog[k].data
            /\ last.at > setLog[k].at + setLog[k].ttl => last.result = Null

\* C1 witness: a get exactly t after set(k, v, t) that returned v.
C1_Witness ==
    \E k \in Keys :
        /\ GetAfterSet(k)
        /\ setLog[k].ttl > 0
        /\ last.at = setLog[k].at + setLog[k].ttl
        /\ setLog[k].data # Null
        /\ last.result = setLog[k].data

\* C5: get(k) returns the stored value when an entry for k is present and
\* now <= expiresAt, and absent when there is no entry or now > expiresAt.
C5_VisibleWhileNotExpired ==
    last.op = "get" =>
        last.result = IF last.stored /\ last.at <= last.entry.expiresAt
                      THEN last.entry.data
                      ELSE Null

\* C5 witness: a get at now = expiresAt that returned the stored value.
C5_Witness ==
    /\ last.op = "get"
    /\ last.stored
    /\ last.at = last.entry.expiresAt
    /\ last.entry.data # Null
    /\ last.result = last.entry.data

\* C6 (as stated): set(k, v, 0) followed by get(k) returns absent, also when
\* the read happens at the clock value of the set.
C6_ZeroTtlAlwaysAbsent ==
    \A k \in Keys :
        GetAfterSet(k) /\ setLog[k].ttl = 0 => last.result = Null

\* C6 (amended): set(k, v, 0) followed by get(k) returns absent once the clock
\* has advanced past the value it had at the set; a get at the clock value of
\* the set still returns v.
C6_ZeroTtlAbsentAfterClockAdvance ==
    \A k \in Keys :
        GetAfterSet(k) /\ setLog[k].ttl = 0 =>
            /\ last.at = setLog[k].at => last.result = setLog[k].data
            /\ last.at > setLog[k].at => last.result = Null

\* C6 witness: a get after set(k, v, 0) with the clock advanced, returning absent.
C6_Witness ==
    \E k \in Keys :
        /\ GetAfterSet(k)
        /\ setLog[k].ttl = 0
        /\ setLog[k].data # Null
        /\ last.at > setLog[k].at
        /\ last.stored
        /\ last.result = Null

\* C7: get(k) or has(k) on an entry whose expiration has passed removes the
\* entry, so getCacheStats() next neither counts k in size nor lists it in keys.
C7_ReadEvicts ==
    last.op \in {"get", "has"} /\ last.stored /\ last.at > last.entry.expiresAt =>
        /\ last.key \notin CacheStats(cache).keys
        /\ CacheStats(cache).keys = last.keys \ {last.key}
        /\ CacheStats(cache).size = Cardinality(last.keys) - 1

\* C7 witness: has(k) on an expired entry while another key is stored.
C7_Witness ==
    /\ last.op = "has"
    /\ last.stored
    /\ last.at > last.entry.expiresAt
    /\ Cardinality(last.keys) = 2
    /\ CacheStats(cache).size = 1

-----------------------------------------------------------------------------
(* Properties of withCache (SpecWithCache) *)

\* Every call was made while no earlier call was pending: the calls are in sequence.
InSequence == \A c \in 1..Len(calls) : calls[c].alone

\* Call c + 1 repeats call c (same key, fetcher and ttl) within the ttl of call c.
RepeatedWithinTtl(c) ==
    /\ calls[c].op = "withCache"
    /\ calls[c + 1].op = "withCache"
    /\ calls[c + 1].key = calls[c].key
    /\ calls[c + 1].fetcher = calls[c].fetcher
    /\ calls[c + 1].ttl = calls[c].ttl
    /\ calls[c + 1].at < calls[c].at + TtlMs(calls[c].ttl)

\* C2 (as stated): withCache(k, fetcher, ttl) called twice in sequence within
\* ttl invokes fetcher exactly once and the second call returns the value of
\* the first, for every value the fetcher resolves to, null included.
C2_FetcherInvokedOnce ==
    \A c \in 1..(Len(calls) - 1) :
        /\ InSequence
        /\ RepeatedWithinTtl(c)
        /\ calls[c].fetcher.resolves
        /\ calls[c].status = "resolved"
        /\ calls[c + 1].status = "resolved"
        => /\ calls[c].up.fetcher + calls[c + 1].up.fetcher = 1
           /\ calls[c + 1].result = calls[c].result

\* The map m without the entry of k when that entry is expired at time t.
WithoutExpired(m, k, t) ==
    [j \in {x \in DOMAIN m : ~(x = k /\ t > m[x].expiresAt)} |-> m[j]]

\* The fetcher of call c was invoked and has rejected.
FetcherRejected(c) ==
    /\ calls[c].op = "withCache"
    /\ calls[c].up.fetcher = 1
    /\ ~calls[c].fetcher.resolves
    /\ calls[c].status # "pending"

\* C3 (as stated): if the fetcher passed to withCache(k, ...) rejects, the
\* rejection reaches the caller unchanged, the cache store is exactly as it
\* was before the call, and the next withCache(k, ...) invokes its fetcher.
C3_StoreUntouchedOnRejection ==
    \A c \in 1..Len(calls) :
        InSequence /\ FetcherRejected(c) =>
            /\ calls[c].status = "rejected"
            /\ calls[c].result = calls[c].fetcher.value
            /\ c = Len(calls) => cache = calls[c].before
            /\ c < Len(calls) /\ calls[c + 1].key = calls[c].key =>
                   calls[c + 1].up.fetcher = 1

\* C3 (amended): if the fetcher passed to withCache(k, ...) rejects, the
\* rejection reaches the caller unchanged, no entry for k is written, the
\* store holds what it held before the call except an expired entry of k
\* (which the lookup of the call has evicted), and the next withCache(k, ...)
\* invokes its fetcher.
C3_NoEntryWrittenOnRejection ==
    \A c \in 1..Len(calls) :
        InSequence /\ FetcherRejected(c) =>
            /\ calls[c].status = "rejected"
            /\ calls[c].result = calls[c].fetcher.value
            /\ c = Len(calls) =>
                   cache = WithoutExpired(calls[c].before, calls[c].key, calls[c].at)
            /\ c < Len(calls) /\ calls[c + 1].key = calls[c].key =>
                   calls[c + 1].up.fetcher = 1

\* C3 witness: a rejected call that found an expired entry of its key, which
\* is gone from the store afterwards.
C3_Witness ==
    \E c \in 1..Len(calls) :
        /\ InSequence
        /\ FetcherRejected(c)
        /\ c = Len(calls)
        /\ calls[c].status = "rejected"
        /\ MapHas(calls[c].before, calls[c].key)
        /\ ~MapHas(cache, calls[c].key)

-----------------------------------------------------------------------------
(* Properties of getFilteredMeals (SpecApi) *)

\* Call c is a getFilteredMeals call.
IsFiltered(c) == calls[c].op = "getFilteredMeals"

\* The query is empty or consists of white space only.
WhitespaceOnly(q) == \A i \in 1..Len(q) : q[i] \in WhiteSpace

\* No two meals of the list have the same id.
NoDuplicateIds(list) ==
    \A i, j \in 1..Len(list) : list[i].idMeal = list[j].idMeal => i = j

\* C4 (as stated): the list returned by getFilteredMeals never contains two
\* meals with the same id, in every branch and for every upstream response.
C4_NoDuplicateIds ==
    \A c \in 1..Len(calls) :
        IsFiltered(c) /\ calls[c].status = "resolved" =>
            NoDuplicateIds(calls[c].result.list)

\* C8: with searchQuery empty or whitespace-only, no categories and no areas,
\* getFilteredMeals returns an empty list and makes no upstream call.
C8_NothingSelected ==
    \A c \in 1..Len(calls) :
        /\ IsFiltered(c)
        /\ WhitespaceOnly(calls[c].options.searchQuery)
        /\ calls[c].options.categories = <<>>
        /\ calls[c].options.areas = <<>>
        => /\ calls[c].status = "resolved"
           /\ calls[c].result = List(<<>>)
           /\ calls[c].up = NoUpstream

\* C8 witness: a whitespace-only query without filters, resolved by the
\* resolver itself (not from the cache).
C8_Witness ==
    \E c \in 1..Len(calls) :
        /\ IsFiltered(c)
        /\ calls[c].options = Request(<<" ">>, <<>>, <<>>)
        /\ calls[c].branch = "search"
        /\ calls[c].result = List(<<>>)

\* The lists upstream has sent in answer to a search for q (the search cache
\* does not distinguish the case of the query); none is asked for a blank q.
SearchResultsFor(q) ==
    IF WhitespaceOnly(q) THEN {<<>>}
    ELSE {e.results : e \in {x \in log : ToLowerCase(x.query) = ToLowerCase(q)}}

\* The meals of list whose category is in categories (or categories is empty)
\* and whose area is in areas (or areas is empty).
Matching(list, categories, areas) ==
    LET InCategories(meal) ==
            categories = <<>> \/ \E i \in 1..Len(categories) : categories[i] = meal.strCategory
        InAreas(meal) ==
            areas = <<>> \/ \E i \in 1..Len(areas) : areas[i] = meal.strArea
        Both(meal) == InCategories(meal) /\ InAreas(meal)
    IN SelectSeq(list, Both)

\* C9: with a non-empty searchQuery, getFilteredMeals returns exactly the
\* upstream search results whose category is in categories (or categories is
\* empty) and whose area is in areas (or areas is empty), and calls neither
\* the filter-by-category nor the filter-by-area endpoint.
C9_SearchPrecedence ==
    \A c \in 1..Len(calls) :
        IsFiltered(c) /\ calls[c].options.searchQuery # <<>> =>
            /\ calls[c].up.category = 0
            /\ calls[c].up.area = 0
            /\ calls[c].status = "resolved" =>
                   \E found \in SearchResultsFor(calls[c].options.searchQuery) :
                       calls[c].result =
                           List(Matching(found, calls[c].options.categories,
                                         calls[c].options.areas))

\* C9 witness: a search with a category and an area filter whose upstream
\* results held a meal failing the category and a meal failing the area.
C9_Witness ==
    \E c \in 1..Len(calls) :
        /\ IsFiltered(c)
        /\ calls[c].options = Request(<<"b">>, <<B>>, <<I>>)
        /\ calls[c].up.search = 1
        /\ \E e \in log : e.query = <<"b">> /\ e.results = <<Meal1, Meal2, Meal3>>
        /\ calls[c].result = List(<<Meal1>>)

\* C10 (as stated): with searchQuery empty or whitespace-only and categories
\* non-empty, getFilteredMeals resolves through the category branch: it
\* returns the deduplicated per-category results, area-filtered when areas
\* is non-empty.
C10_BlankQueryUsesCategories ==
    \A c \in 1..Len(calls) :
        /\ IsFiltered(c)
        /\ WhitespaceOnly(calls[c].options.searchQuery)
        /\ Len(calls[c].options.categories) > 0
        /\ calls[c].status = "resolved"
        /\ calls[c].branch # "cache"
        => /\ calls[c].branch = "category"
           /\ Len(calls[c].parts) = Len(calls[c].options.categories)
           /\ NoDuplicateIds(calls[c].result.list)
           /\ \A id \in {m.idMeal : m \in {Meal1, Meal2, Meal3}} :
                  (\E i \in 1..Len(calls[c].result.list) :
                       calls[c].result.list[i].idMeal = id)
                  <=> \E p \in 1..Len(calls[c].parts) :
                          \E i \in 1..Len(calls[c].parts[p].list) :
                              /\ calls[c].parts[p].list[i].idMeal = id
                              /\ \/ calls[c].options.areas = <<>>
                                 \/ Includes(calls[c].options.areas,
                                             calls[c].parts[p].list[i].strArea)

\* The ids of the meals of a list.
IdsOf(list) == {list[i].idMeal : i \in 1..Len(list)}

\* The position of the first meal of the list with the id.
FirstAt(list, id) ==
    CHOOSE i \in 1..Len(list) :
        list[i].idMeal = id /\ \A j \in 1..(i - 1) : list[j].idMeal # id

\* The area of the meal is one of areas, or no area is asked for.
InAreas(meal, areas) ==
    areas = <<>> \/ \E i \in 1..Len(areas) : areas[i] = meal.strArea

\* result is the list all deduplicated by id (one record of all kept per id,
\* ids in the order of their first occurrence) and restricted to areas.
DedupedAndRestricted(result, all, areas) ==
    /\ NoDuplicateIds(result)
    /\ \A i \in 1..Len(result) :
           /\ \E j \in 1..Len(all) : all[j] = result[i]
           /\ InAreas(result[i], areas)
    /\ \A id \in IdsOf(all) \ IdsOf(result) :
           \E j \in 1..Len(all) : all[j].idMeal = id /\ ~InAreas(all[j], areas)
    /\ \A i, j \in 1..Len(result) :
           i < j => FirstAt(all, result[i].idMeal) < FirstAt(all, result[j].idMeal)

\* Call c has resolved by running performFilteredSearch (not from the cache).
Resolution(c) ==
    /\ IsFiltered(c)
    /\ calls[c].status = "resolved"
    /\ calls[c].branch # "cache"

\* C11: with no search query and non-empty categories, the result is the
\* concatenation of the per-category results deduplicated by id and, when
\* areas is non-empty, restricted to the meals whose area is in areas; the
\* filter-by-area endpoint is not called.
C11_CategoryBranch ==
    \A c \in 1..Len(calls) :
        /\ IsFiltered(c)
        /\ calls[c].options.searchQuery = <<>>
        /\ Len(calls[c].options.categories) > 0
        => /\ calls[c].up.area = 0
           /\ Resolution(c) =>
                  /\ calls[c].branch = "category"
                  /\ Len(calls[c].parts) = Len(calls[c].options.categories)
                  /\ DedupedAndRestricted(calls[c].result.list, Flat(calls[c].parts),
                                          calls[c].options.areas)

\* C11 witness: one category with an area filter; the category held a meal of
\* another area, which the result leaves out.
C11_Witness ==
    \E c \in 1..Len(calls) :
        /\ Resolution(c)
        /\ calls[c].options = Request(<<>>, <<B>>, <<I>>)
        /\ calls[c].up.category = 1
        /\ calls[c].parts = <<List(<<Summary(Meal2), Summary(Meal1)>>)>>
        /\ calls[c].result = List(<<Summary(Meal1)>>)

\* The full records upstream holds for the id.
UpstreamRecords(id) == {m \in {Meal1, Meal1Edited, Meal2, Meal3} : m.idMeal = id}

\* The meal carries the id, name, category and area of a full upstream record.
CarriesLookup(meal) ==
    \E m \in UpstreamRecords(meal.idMeal) :
        /\ meal.strMeal = m.strMeal
        /\ meal.strCategory = m.strCategory
        /\ meal.strArea = m.strArea

\* C12: with no search query, no categories and non-empty areas, the result
\* is the concatenation of the per-area results deduplicated by id, each meal
\* carrying the category recovered by its per-id lookup; the
\* filter-by-category endpoint is not called.
C12_AreaBranch ==
    \A c \in 1..Len(calls) :
        /\ IsFiltered(c)
        /\ calls[c].options.searchQuery = <<>>
        /\ calls[c].options.categories = <<>>
        /\ Len(calls[c].options.areas) > 0
        => /\ calls[c].up.category = 0
           /\ Resolution(c) =>
                  /\ calls[c].branch = "area"
                  /\ Len(calls[c].parts) = Len(calls[c].options.areas)
                  /\ DedupedAndRestricted(calls[c].result.list, Flat(calls[c].parts), <<>>)
                  /\ \A i \in 1..Len(calls[c].result.list) :
                         CarriesLookup(calls[c].result.list[i])

\* C12 witness: two areas whose results share a meal; the result holds it once.
C12_Witness ==
    \E c \in 1..Len(calls) :
        /\ Resolution(c)
        /\ calls[c].options = Request(<<>>, <<>>, <<M, I>>)
        /\ calls[c].up.area = 2
        /\ Len(Flat(calls[c].parts)) = 3
        /\ calls[c].result = List(<<Summary(Meal2), Summary(Meal1)>>)

\* C13 (as stated): for a meal id that appears in several per-category (or
\* per-area) results, the returned list holds the record of its first
\* occurrence in concatenation order, at the position of that first
\* occurrence, with field values unaltered.
C13_FirstOccurrenceKept ==
    \A c \in 1..Len(calls) :
        Resolution(c) /\ calls[c].branch \in {"category", "area"} =>
            LET all == Flat(calls[c].parts)
                result == calls[c].result.list
            IN /\ \A i \in 1..Len(result) :
                      result[i] = all[FirstAt(all, result[i].idMeal)]
               /\ \A i, j \in 1..Len(result) :
                      i < j => FirstAt(all, result[i].idMeal) < FirstAt(all, result[j].idMeal)

\* The sequences a and b hold the same elements, each once, in some order.
SameSetReordered(a, b) ==
    /\ Len(a) = Len(b)
    /\ \A i, j \in 1..Len(a) : a[i] = a[j] => i = j
    /\ {a[i] : i \in 1..Len(a)} = {b[i] : i \in 1..Len(b)}

\* Calls c and d ask for the same query, category set and area set.
SameSelection(c, d) ==
    /\ IsFiltered(c)
    /\ IsFiltered(d)
    /\ calls[c].options.searchQuery = calls[d].options.searchQuery
    /\ SameSetReordered(calls[c].options.categories, calls[d].options.categories)
    /\ SameSetReordered(calls[c].options.areas, calls[d].options.areas)

\* C14: any two orderings of the same category set and the same area set
\* produce the same combined cache key and the same result set: the
\* resolution receives the same (sorted) filters, and a call served from the
\* cache returns the list an earlier call resolved for the same sets, in
\* whatever order that call gave them.
C14_OrderIrrelevant ==
    \A c, d \in 1..Len(calls) :
        c < d /\ SameSelection(c, d) =>
            /\ calls[c].key = calls[d].key
            /\ calls[c].optionsAfter = calls[d].optionsAfter
            /\ calls[d].status = "resolved" /\ calls[d].branch = "cache" =>
                   \E e \in 1..(d - 1) :
                       /\ SameSelection(e, d)
                       /\ Resolution(e)
                       /\ calls[d].result = calls[e].result

\* C14 witness: categories asked in two different orders; the second call is
\* served the non-empty result of the first.
C14_Witness ==
    \E c, d \in 1..Len(calls) :
        /\ c < d
        /\ SameSelection(c, d)
        /\ calls[c].options.categories # calls[d].options.categories
        /\ calls[d].status = "resolved"
        /\ calls[d].branch = "cache"
        /\ calls[d].up = NoUpstream
        /\ Len(calls[d].result.list) > 0

\* C15 (as stated): after getFilteredMeals(options) returns, options.categories
\* and options.areas hold the same elements in the same order as before the call.
C15_OptionsNotMutated ==
    \A c \in 1..Len(calls) :
        IsFiltered(c) =>
            /\ calls[c].optionsAfter.categories = calls[c].options.categories
            /\ calls[c].optionsAfter.areas = calls[c].options.areas

\* C16: if any upstream call made during a getFilteredMeals resolution fails,
\* the call rejects with that error (the first failure), no meal list is
\* returned, and no entry is written under the combined key, so a retry runs
\* the resolution again.
C16_AllOrNothing ==
    \A c \in 1..Len(calls) :
        IsFiltered(c) /\ calls[c].errors # <<>> =>
            /\ calls[c].status = "rejected"
            /\ calls[c].result = calls[c].errors[1]
            /\ InSequence /\ c = Len(calls) => ~MapHas(cache, calls[c].key)
            /\ InSequence /\ c < Len(calls) /\ calls[c + 1].key = calls[c].key =>
                   calls[c + 1].branch # "cache"

\* C16 witness: of two categories one was fetched (and cached under its own
\* key) and the other failed; the call is rejected and the combined key is
\* not written.
C16_Witness ==
    \E c \in 1..Len(calls) :
        /\ IsFiltered(c)
        /\ c = Len(calls)
        /\ calls[c].branch = "category"
        /\ Len(calls[c].errors) = 1
        /\ calls[c].status = "rejected"
        /\ MapHas(cache, FilterByCategoryKey(B))
        /\ ~MapHas(cache, FilterByCategoryKey(C))
        /\ ~MapHas(cache, calls[c].key)

\* C17 (as stated): no result derived from an upstream name search is served
\* from cache more than the SHORT TTL after that upstream search was
\* performed: a getFilteredMeals call with a search query that is answered
\* without a new upstream search returns the filtered results of a search
\* made at most CACHE_TTL.SHORT before the call.
C17_SearchResultsShortLived ==
    \A c \in 1..Len(calls) :
        /\ IsFiltered(c)
        /\ ~WhitespaceOnly(calls[c].options.searchQuery)
        /\ calls[c].status = "resolved"
        /\ calls[c].up.search = 0
        => \E e \in log :
               /\ ToLowerCase(e.query) = ToLowerCase(calls[c].options.searchQuery)
               /\ calls[c].result = List(Matching(e.results, calls[c].options.categories,
                                                  calls[c].options.areas))
               /\ calls[c].at <= e.at + CACHE_TTL_SHORT

\* The key starts with the prefix.
HasPrefix(k, prefix) ==
    Len(k) >= Len(prefix) /\ SubSeq(k, 1, Len(prefix)) = prefix

\* The tier of the entry written under a key: 1 for search entries, 2 for
\* per-category, per-area and combined entries, 3 for the category list, the
\* area list and per-id meal entries.
Tier(k) ==
    IF HasPrefix(k, <<"s","e","a","r","c","h",":">>) THEN 1
    ELSE IF HasPrefix(k, <<"f","i","l","t","e","r">>) THEN 2
    ELSE 3

\* C18: the TTLs under which entries are written respect the three-tier
\* ordering: search entries <= per-category, per-area and combined entries
\* <= category list, area list and per-id meal entries.
C18_TierOrdering ==
    \A k1, k2 \in DOMAIN setLog :
        Tier(k1) <= Tier(k2) => setLog[k1].ttl <= setLog[k2].ttl

\* C18 witness: entries of all three tiers have been written, among them a
\* combined entry and a reference list.
C18_Witness ==
    /\ \E k \in DOMAIN setLog : Tier(k) = 1
    /\ \E k \in DOMAIN setLog : Tier(k) = 2 /\ HasPrefix(k, <<"f","i","l","t","e","r","e","d">>)
    /\ \E k \in DOMAIN setLog : Tier(k) = 3 /\ k \in {CategoriesKey, AreasKey}

-----------------------------------------------------------------------------
(* Further properties of the cache used directly (SpecCache) *)

\* C19: delete(k) returns true exactly when an entry for k was physically
\* present before the call (expired or not) and false otherwise; after it,
\* get(k) is absent and all other entries are unchanged.
C19_DeleteReportsPresence ==
    last.op = "delete" =>
        /\ last.result = [bool |-> last.stored]
        /\ ~MapHas(cache, last.key)
        /\ CacheGet(cache, last.key, now).value = Null
        /\ DOMAIN cache = last.keys \ {last.key}
        /\ \A k \in DOMAIN cache : cache[k] = last.map[k]

\* C19 witness: delete of an entry that had expired but was still stored
\* returned true, and another entry is still stored.
C19_Witness ==
    /\ last.op = "delete"
    /\ last.stored
    /\ last.at > last.entry.expiresAt
    /\ last.result = [bool |-> TRUE]
    /\ Cardinality(DOMAIN cache) = 1

\* C20: after clear(), whatever the prior content, getCacheStats() is
\* {size: 0, keys: []} and get(k) is absent for every key; a second clear()
\* changes nothing.
C20_ClearEmpties ==
    last.op = "clear" =>
        /\ CacheStats(cache) = [size |-> 0, keys |-> {}]
        /\ \A k \in Keys : CacheGet(cache, k, now).value = Null
        /\ CacheClear(cache) = cache

\* C20 witness: clear() of a cache that held two entries.
C20_Witness ==
    /\ last.op = "clear"
    /\ Cardinality(last.keys) = 2
    /\ cache = EmptyMap

\* The entries of the map that are not expired at time t.
LiveKeys(m, t) == {k \in DOMAIN m : t <= m[k].expiresAt}

\* C21: cleanup() removes exactly the entries whose expiration has passed at
\* the time of the call and leaves every other entry in place with its value
\* and expiresAt unchanged.
C21_CleanupRemovesExpired ==
    last.op = "cleanup" =>
        /\ DOMAIN cache = LiveKeys(last.map, last.at)
        /\ \A k \in DOMAIN cache : cache[k] = last.map[k]

\* C21 witness: a cleanup that found one expired and one live entry, the live
\* one at the very instant of its expiresAt.
C21_Witness ==
    /\ last.op = "cleanup"
    /\ Cardinality(last.keys) = 2
    /\ \E k \in DOMAIN cache :
           /\ DOMAIN cache = {k}
           /\ cache[k].expiresAt = last.at

\* C22: getCacheStats() reports physical storage: keys is exactly the set of
\* stored keys, size its cardinality, and in every reachable state size is at
\* least the number of live (unexpired) entries.
C22_StatsArePhysical ==
    /\ Cardinality(DOMAIN cache) >= Cardinality(LiveKeys(cache, now))
    /\ last.op = "stats" =>
           /\ last.result.keys = last.keys
           /\ last.result.size = Cardinality(last.keys)
           /\ last.result.size >= Cardinality(LiveKeys(last.map, last.at))

\* C22 witness: stats taken while an expired entry is still stored: size 2
\* with one live entry.
C22_Witness ==
    /\ last.op = "stats"
    /\ last.result.size = 2
    /\ Cardinality(LiveKeys(last.map, last.at)) = 1

\* C23: set(k, v, ttl) replaces any existing entry for k, live or expired,
\* with value v and expiresAt = now + ttl (5 minutes when ttl is omitted),
\* and leaves all other keys unchanged.
C23_LastWriteWins ==
    last.op = "set" =>
        /\ MapHas(setLog, last.key)
        /\ setLog[last.key].at = last.at
        /\ MapHas(cache, last.key)
        /\ cache[last.key].data = setLog[last.key].data
        /\ cache[last.key].expiresAt =
               last.at + (IF setLog[last.key].arg = <<>>
                          THEN 300000
                          ELSE setLog[last.key].arg[1])
        /\ DOMAIN cache = last.keys \cup {last.key}
        /\ \A k \in DOMAIN cache \ {last.key} : cache[k] = last.map[k]

\* C23 witness: a set without ttl that replaced an expired entry holding
\* another value, while another key was stored.
C23_Witness ==
    /\ last.op = "set"
    /\ last.stored
    /\ last.at > last.entry.expiresAt
    /\ cache[last.key].data # last.entry.data
    /\ setLog[last.key].arg = <<>>
    /\ Cardinality(DOMAIN cache) = 2

\* C24: has(k) answers as "get(k) is not absent" in every state, and neither
\* has nor get adds an entry: on a live entry (or a missing one) the whole
\* store is unchanged, on an expired entry the only effect is removing k.
C24_HasIsGet ==
    /\ \A k \in Keys :
           CacheHas(cache, k, now).value = (CacheGet(cache, k, now).value # Null)
    /\ last.op = "has" =>
           last.result = [bool |-> /\ last.stored
                                   /\ last.at <= last.entry.expiresAt
                                   /\ last.entry.data # Null]
    /\ last.op \in {"get", "has"} =>
           IF last.stored /\ last.at > last.entry.expiresAt
           THEN /\ DOMAIN cache = last.keys \ {last.key}
                /\ \A k \in DOMAIN cache : cache[k] = last.map[k]
           ELSE cache = last.map

\* C24 witness: has(k) on a live entry returned true and the store is as before.
C24_Witness ==
    /\ last.op = "has"
    /\ last.result = [bool |-> TRUE]
    /\ Cardinality(last.keys) = 2
    /\ last.at > 0
    /\ cache = last.map

\* ---------------------------------------------------------------------------
\* Cache keys
\* ---------------------------------------------------------------------------

\* The segments q, c, a of a selection, each with the data it carries.
KeySegments(options) ==
    << [tag |-> <<"q",":">>, empty |-> options.searchQuery = <<>>,
        text |-> options.searchQuery],
       [tag |-> <<"c",":">>, empty |-> options.categories = <<>>,
        text |-> Join(SortStrings(options.categories), <<",">>)],
       [tag |-> <<"a",":">>, empty |-> options.areas = <<>>,
        text |-> Join(SortStrings(options.areas), <<",">>)] >>

RECURSIVE KeyFrom(_, _)
KeyFrom(key, segments) ==
    IF segments = <<>> THEN key
    ELSE KeyFrom(IF Head(segments).empty THEN key
                 ELSE key \o <<"|">> \o Head(segments).tag \o Head(segments).text,
                 Tail(segments))

\* C25: the combined cache key is "filtered" followed by the segments
\* q:<query>, c:<sorted categories joined by commas>, a:<sorted areas joined
\* by commas>, joined by "|", with only the segments whose data is non-empty,
\* in the order q, c, a; the query segment is the search term verbatim.
C25_CombinedKeyFormat ==
    \A c \in 1..Len(calls) :
        IsFiltered(c) =>
            calls[c].key = KeyFrom(<<"f","i","l","t","e","r","e","d">>,
                                   KeySegments(calls[c].options))

\* C25 witness: a selection with an upper-case query, and one with two
\* categories given out of order.
C25_Witness ==
    /\ \E c \in 1..Len(calls) :
           /\ IsFiltered(c)
           /\ calls[c].options.searchQuery = <<"B">>
           /\ calls[c].key = <<"f","i","l","t","e","r","e","d","|","q",":","B">>
    /\ \E c \in 1..Len(calls) :
           /\ IsFiltered(c)
           /\ calls[c].options.categories = <<C, B>>
           /\ calls[c].key = <<"f","i","l","t","e","r","e","d","|","c",":","B",",","C">>

IsSearch(c) == calls[c].op = "searchMealsByName"

\* Call c is a direct search that went upstream and delivered a list, and call
\* d is a later direct search, started after every earlier call had settled
\* and within the short TTL of c's delivery, for a query that differs from
\* c's at most in letter case.
SearchRepeated(c, d) ==
    /\ c < d
    /\ IsSearch(c) /\ IsSearch(d)
    /\ ToLowerCase(calls[c].options.searchQuery) = ToLowerCase(calls[d].options.searchQuery)
    /\ calls[c].status = "resolved"
    /\ calls[c].up.search = 1
    /\ calls[d].alone
    /\ calls[d].at <= calls[c].doneAt + CACHE_TTL_SHORT
    /\ calls[d].status # "pending"

\* C26: search keys are case-normalized: queries that differ only in letter
\* case get the same key, so a search repeated in sequence within the TTL
\* with such a query performs no further upstream search and returns the
\* list a search for that query delivered - the list of the call just before
\* it when the two follow one another.
C26_SearchKeyIgnoresCase ==
    /\ \A c \in 1..Len(calls) :
           IsSearch(c) =>
               calls[c].key = <<"s","e","a","r","c","h",":">>
                                  \o ToLowerCase(calls[c].options.searchQuery)
    /\ \A c, d \in 1..Len(calls) :
           SearchRepeated(c, d) =>
               /\ calls[d].up.search = 0
               /\ calls[d].status = "resolved"
               /\ \E e \in log :
                      /\ ToLowerCase(e.query) = ToLowerCase(calls[d].options.searchQuery)
                      /\ calls[d].result = List(e.results)
               /\ (d = c + 1 /\ calls[c].alone) => calls[d].result = calls[c].result

\* C26 witness: "b" searched upstream, then "B" served the same non-empty
\* list without a request.
C26_Witness ==
    \E c, d \in 1..Len(calls) :
        /\ SearchRepeated(c, d)
        /\ calls[c].options.searchQuery = <<"b">>
        /\ calls[d].options.searchQuery = <<"B">>
        /\ calls[d].up = NoUpstream
        /\ calls[d].result = calls[c].result
        /\ Len(calls[d].result.list) > 0

\* ---------------------------------------------------------------------------
\* Errors
\* ---------------------------------------------------------------------------

\* C27: every upstream failure reaches the caller as an ApiError: a response
\* with non-success status yields an ApiError carrying that status code (it
\* is passed on as raised, not wrapped again); a transport failure or any
\* other thrown error yields an ApiError without statusCode carrying the
\* original message.
C27_FailuresAreApiErrors ==
    \A c \in 1..Len(calls) :
        /\ calls[c].status = "rejected" /\ calls[c].op # "withCache" =>
               /\ calls[c].failures # <<>>
               /\ calls[c].result = calls[c].errors[1]
        /\ Len(calls[c].errors) = Len(calls[c].failures)
        /\ \A i \in 1..Len(calls[c].failures) :
               LET resp == calls[c].failures[i]
                   error == calls[c].errors[i]
               IN /\ error.name = "ApiError"
                  /\ resp.type = "status" =>
                         /\ error.statusCode = <<resp.status>>
                         /\ error.message = "API request failed: " \o resp.statusText
                  /\ resp.type \in {"throw", "json"} =>
                         /\ error.statusCode = <<>>
                         /\ error.message = resp.error.message

\* C27 witness: one caller was rejected with the ApiError of a 500 response,
\* another with the ApiError made of a thrown error.
C27_Witness ==
    /\ \E c \in 1..Len(calls) :
           /\ calls[c].status = "rejected"
           /\ calls[c].failures[1].type = "status"
           /\ calls[c].result.statusCode = <<500>>
    /\ \E c \in 1..Len(calls) :
           /\ calls[c].status = "rejected"
           /\ calls[c].failures[1].type \in {"throw", "json"}
           /\ calls[c].result.message = calls[c].failures[1].error.message

\* ---------------------------------------------------------------------------
\* Payloads
\* ---------------------------------------------------------------------------

\* C28: a null payload list from upstream is normalized before it reaches
\* callers or the cache: searchMealsByName, getCategories, getAreas,
\* filterByCategory and filterByArea return and cache an empty list, and
\* getMealById returns not-found (null).
C28_NullPayloadNormalized ==
    \A c \in 1..Len(calls) :
        \A i \in 1..Len(calls[c].nulls) :
            LET e == calls[c].nulls[i]
            IN IF e.kind = "meal"
               THEN e.stored = <<Null>>
               ELSE /\ e.kind \in {"search", "categories", "areas", "fcat", "farea"}
                    /\ e.stored = <<List(<<>>)>>
                    /\ e.returned \in {<<>>, <<List(<<>>)>>}

\* C28 witness: a direct search got no payload list and returned the empty
\* list it cached; a resolution got none for a category and none for a meal.
C28_Witness ==
    /\ \E c \in 1..Len(calls) :
           /\ IsSearch(c)
           /\ calls[c].status = "resolved"
           /\ Len(calls[c].nulls) = 1
           /\ calls[c].nulls[1].returned = <<List(<<>>)>>
           /\ MapHas(cache, calls[c].key)
           /\ cache[calls[c].key].data = List(<<>>)
    /\ \E c \in 1..Len(calls) :
           \E i \in 1..Len(calls[c].nulls) : calls[c].nulls[i].kind \in {"meal", "fcat"}

\* ---------------------------------------------------------------------------
\* Background sweep (SpecSweep)
\* ---------------------------------------------------------------------------

StoredExpired(k) == MapHas(cache, k) /\ now > cache[k].expiresAt

\* C29: for the lifetime of the process cleanup() is triggered at a fixed
\* interval, so every entry that has expired is eventually removed from
\* physical storage even if it is never read again.
C29_ExpiredEventuallyRemoved ==
    \A k \in Keys : StoredExpired(k) ~> ~StoredExpired(k)

\* Where the timer was registered, every expired entry is eventually removed.
SweptWhereRegistered ==
    \A k \in Keys : (timer.registered /\ StoredExpired(k)) ~> ~StoredExpired(k)

\* The timer fired on a store holding an expired entry and removed it.
SweepRemovedEntry ==
    /\ last.op = "cleanup"
    /\ last.at >= SWEEP_INTERVAL
    /\ \E k \in last.keys : ~MapHas(cache, k)

\* ---------------------------------------------------------------------------
\* Concurrent withCache calls (SpecWithCache)
\* ---------------------------------------------------------------------------

IsWithCache(c) == calls[c].op = "withCache"

\* Call d was made for the key of call c while c's producer was running and
\* the store held no live entry for the key.
Concurrent(c, d) ==
    /\ IsWithCache(c) /\ IsWithCache(d)
    /\ calls[c].key = calls[d].key
    /\ c \in calls[d].overlaps
    /\ \/ ~MapHas(calls[d].before, calls[d].key)
       \/ calls[d].at > calls[d].before[calls[d].key].expiresAt

\* The calls for key k whose producer has delivered a value.
Producers(k) ==
    {c \in 1..Len(calls) :
        IsWithCache(c) /\ calls[c].key = k /\ calls[c].status = "resolved"
                       /\ calls[c].up.fetcher = 1}

\* C30: no single-flight: when two withCache calls for the same key both
\* start while no live entry exists and before either producer has
\* completed, the producer is invoked once per call, each caller gets its own
\* producer's outcome, and the value written last - the one the store ends
\* with - is that of the producer that completed last with a value.
C30_NoSingleFlight ==
    /\ \A c, d \in 1..Len(calls) :
           Concurrent(c, d) =>
               /\ calls[c].up.fetcher = 1
               /\ calls[d].up.fetcher = 1
               /\ \A e \in {c, d} :
                      /\ calls[e].status = "resolved" =>
                             calls[e].fetcher.resolves
                                 /\ calls[e].result = calls[e].fetcher.value
                      /\ calls[e].status = "rejected" =>
                             ~calls[e].fetcher.resolves
                                 /\ calls[e].result = calls[e].fetcher.value
    /\ \A k \in WcKeys :
           /\ MapHas(setLog, k) = (Producers(k) # {})
           /\ \A c \in Producers(k) :
                  (\A e \in Producers(k) : calls[e].order <= calls[c].order) =>
                      /\ setLog[k].data = calls[c].fetcher.value
                      /\ MapHas(cache, k) => cache[k].data = calls[c].fetcher.value

\* C30 witness: two overlapping calls, the second one's producer delivered
\* first; each got its own value and the store holds the first call's.
C30_Witness ==
    \E c, d \in 1..Len(calls) :
        /\ Concurrent(c, d)
        /\ calls[c].status = "resolved" /\ calls[d].status = "resolved"
        /\ calls[d].order < calls[c].order
        /\ calls[c].result = Str("a")
        /\ calls[d].result = Str("b")
        /\ MapHas(cache, calls[c].key)
        /\ cache[calls[c].key].data = Str("a")

\* ---------------------------------------------------------------------------
\* Resolutions with several names (SpecResolve)
\* ---------------------------------------------------------------------------

\* The positions in arrivals of the responses to the requests of call c.
ArrivalsOf(c) == {i \in 1..Len(arrivals) : arrivals[i].call = c}

\* Upstream answered alike whenever call c asked it the same thing.
SameResponses(c) ==
    \A i, j \in ArrivalsOf(c) :
        arrivals[i].key = arrivals[j].key => arrivals[i].resp = arrivals[j].resp

\* No other call was in flight together with call c.
Undisturbed(c) ==
    /\ calls[c].overlaps = {}
    /\ \A d \in 1..Len(calls) : c \notin calls[d].overlaps

\* The store held a value under the key when call c was made.
HeldAtStart(c, key) ==
    /\ MapHas(calls[c].before, key)
    /\ calls[c].at <= calls[c].before[key].expiresAt
    /\ calls[c].before[key].data # Null

\* The payload upstream gave call c for the key.
PayloadFor(c, key) ==
    LET i == CHOOSE j \in ArrivalsOf(c) : arrivals[j].key = key
    IN [meals |-> arrivals[i].resp.meals]

\* What getMealById gives call c for the id, from the store as call c found
\* it and the responses of upstream alone.
MealFor(c, id) ==
    IF HeldAtStart(c, MealByIdKey(id)) THEN calls[c].before[MealByIdKey(id)].data
    ELSE FirstMealOrNull(PayloadFor(c, MealByIdKey(id)))

\* What filterByCategory or filterByArea gives call c under the key.
ListFor(c, key) ==
    IF HeldAtStart(c, key) THEN calls[c].before[key].data
    ELSE LET listed == MealsOrEmpty(PayloadFor(c, key))
         IN List(DetailedMeals([i \in 1..Len(listed) |-> MealFor(c, listed[i].idMeal)]))

\* The list of call c as a function of its selection, the store as it found
\* it and the responses of upstream, with no reference to arrival order.
MergedFor(c) ==
    LET o == calls[c].options
        names == IF calls[c].branch = "category" THEN SortStrings(o.categories)
                 ELSE SortStrings(o.areas)
        lists == [i \in 1..Len(names) |->
                     ListFor(c, IF calls[c].branch = "category"
                                THEN FilterByCategoryKey(names[i])
                                ELSE FilterByAreaKey(names[i]))]
        merged == UniqueMeals(Flat(lists), <<>>)
    IN IF calls[c].branch = "category" /\ Len(o.areas) > 0
       THEN Matching(merged, <<>>, o.areas)
       ELSE merged

\* C31: for a category or area resolution with several selected names, the
\* returned list (members and order) is the same for every completion order
\* of the concurrently issued upstream calls, given the same upstream
\* responses and the same initial cache: it is the list determined by the
\* selection, the initial cache and the responses.
C31_CompletionOrderIrrelevant ==
    \A c \in 1..Len(calls) :
        /\ Resolution(c)
        /\ calls[c].branch \in {"category", "area"}
        /\ Undisturbed(c)
        /\ SameResponses(c)
        => calls[c].result = List(MergedFor(c))

\* C31 witness: two categories were asked for, the list of the second
\* arrived before the list of the first, and the result holds the meals of
\* both.
C31_Witness ==
    \E c \in 1..Len(calls) :
        /\ Resolution(c)
        /\ Undisturbed(c)
        /\ SameResponses(c)
        /\ calls[c].options.categories = <<C, B>>
        /\ \E i, j \in ArrivalsOf(c) :
               /\ i < j
               /\ arrivals[i].key = FilterByCategoryKey(C)
               /\ arrivals[j].key = FilterByCategoryKey(B)
               /\ arrivals[i].resp.meals = List(<<Partial(Meal1)>>)
               /\ arrivals[j].resp.meals = List(<<Partial(Meal2), Partial(Meal1)>>)
        /\ calls[c].result = List(<<Summary(Meal2), Summary(Meal1)>>)

\* ---------------------------------------------------------------------------
\* parseIngredients (SpecParse)
\* ---------------------------------------------------------------------------

\* The text is a string with a character that is not white space.
NonBlankString(v) ==
    /\ "str" \in DOMAIN v
    /\ \E i \in 1..Len(v.str) : v.str[i] \notin {" ", "\t"}

\* t is s without the white space at its ends.
Trimmed(t, s) ==
    /\ t # <<>> => t[1] \notin {" ", "\t"} /\ t[Len(t)] \notin {" ", "\t"}
    /\ \E lo \in 0..Len(s) :
           /\ lo + Len(t) <= Len(s)
           /\ \A i \in 1..Len(s) :
                  IF i > lo /\ i <= lo + Len(t) THEN s[i] = t[i - lo]
                  ELSE s[i] \in {" ", "\t"}

\* The slots of the meal at hand that hold an ingredient.
NonBlankSlots == {i \in 1..20 : NonBlankString(parsed.meal[i].ingredient)}

\* C32: parseIngredients returns, in ascending slot order 1..20, one
\* {ingredient, measure} pair for each slot whose ingredient is a non-empty,
\* non-whitespace string, with both fields trimmed and a missing measure
\* rendered as the empty string; blank slots are skipped, so the length
\* equals the number of non-blank slots.
C32_ParseIngredients ==
    parsed.called =>
        /\ Len(parsed.ingredients) = Cardinality(NonBlankSlots)
        /\ \A i \in NonBlankSlots :
               LET k == Cardinality({j \in NonBlankSlots : j <= i})
                   slot == parsed.meal[i]
                   pair == parsed.ingredients[k]
               IN /\ Trimmed(pair.ingredient, slot.ingredient.str)
                  /\ IF "str" \in DOMAIN slot.measure
                     THEN Trimmed(pair.measure, slot.measure.str)
                     ELSE pair.measure = <<>>

\* C32 witness: slots 3 and 7 are blank, the list has 18 entries, the third
\* being slot 4 and the last slot 20, trimmed.
C32_Witness ==
    /\ parsed.called
    /\ {i \in 1..20 : i \notin NonBlankSlots} = {3, 7}
    /\ Len(parsed.ingredients) = 18
    /\ parsed.ingredients[3] = [ingredient |-> <<"n", "4">>, measure |-> <<"1", "g">>]
    /\ parsed.ingredients[18].ingredient = <<"n", "2", "0">>

\* ---------------------------------------------------------------------------
\* Re-fetch after expiry (SpecWithCache)
\* ---------------------------------------------------------------------------

\* Call c found an expired entry stored under its key.
FoundExpired(c) ==
    /\ IsWithCache(c)
    /\ MapHas(calls[c].before, calls[c].key)
    /\ calls[c].at > calls[c].before[calls[c].key].expiresAt

\* Call c is, so far, the last call for its key whose producer delivered.
LatestProducer(c) ==
    /\ c \in Producers(calls[c].key)
    /\ \A e \in Producers(calls[c].key) : calls[e].order <= calls[c].order

\* C33: after the entry written by withCache(k, fetcher, ttl) has expired,
\* the next withCache(k, ...) call invokes its fetcher again and replaces the
\* entry with the new value and an expiresAt computed from the time the new
\* value is stored.
C33_RefetchAfterExpiry ==
    \A c \in 1..Len(calls) :
        FoundExpired(c) =>
            /\ calls[c].up.fetcher = 1
            /\ calls[c].status = "resolved" =>
                   calls[c].result = calls[c].fetcher.value
            /\ calls[c].status = "resolved" /\ LatestProducer(c)
                                            /\ MapHas(cache, calls[c].key) =>
                   cache[calls[c].key] =
                       [data |-> calls[c].fetcher.value,
                        expiresAt |-> calls[c].doneAt
                                          + (IF calls[c].ttl = <<>> THEN 300000
                                             ELSE calls[c].ttl[1])]

\* C33 witness: the second call found the first call's entry expired, its
\* fetcher delivered another value one clock step after the call, and the
\* entry expires 2 ms after that delivery.
C33_Witness ==
    \E c \in 1..Len(calls) :
        /\ FoundExpired(c)
        /\ calls[c].before[calls[c].key].data = Str("a")
        /\ calls[c].status = "resolved"
        /\ calls[c].result = Str("b")
        /\ calls[c].doneAt = calls[c].at + 1
        /\ MapHas(cache, calls[c].key)
        /\ cache[calls[c].key] = [data |-> Str("b"), expiresAt |-> calls[c].doneAt + 2]

-----------------------------------------------------------------------------
(* Properties of the home page (SpecPage) *)

\* The getFilteredMeals calls of the page still in flight.
LoadsInFlight ==
    {c \in 1..Len(calls) :
        calls[c].op = "getFilteredMeals" /\ calls[c].status = "pending"}

\* The latest run of the loadMeals effect made a call while an earlier
\* getFilteredMeals call was in flight.
ChangedInFlight ==
    /\ page.latest # 0
    /\ \E c \in calls[page.latest].overlaps : calls[c].op = "getFilteredMeals"

\* Loading the filter options did not fail (its failure sets the error too).
FilterOptionsFine ==
    \A c \in 1..Len(calls) :
        calls[c].op \in {"getCategories", "getAreas"} => calls[c].status # "rejected"

\* C34: when the selection changed while an earlier getFilteredMeals call was
\* in flight, then once no call is in flight the page shows the outcome of
\* the call made for the latest selection: its list and no error, or its
\* error and an empty list.
C34_LatestSelectionShown ==
    (ChangedInFlight /\ LoadsInFlight = {} /\ FilterOptionsFine) =>
        LET latest == calls[page.latest]
        IN IF latest.status = "resolved"
           THEN page.allMeals = latest.result.list /\ page.error = Null
           ELSE /\ page.allMeals = <<>>
                /\ page.error = [message |-> latest.result.message]

\* The names an array holds.
SetOf(a) == {a[i] : i \in 1..Len(a)}

\* The step changes the debounced query or one of the sets of selected names.
FiltersChange ==
    \/ page'.debouncedSearchQuery # page.debouncedSearchQuery
    \/ SetOf(page'.selectedCategories) # SetOf(page.selectedCategories)
    \/ SetOf(page'.selectedAreas) # SetOf(page.selectedAreas)

-----------------------------------------------------------------------------
(* Properties of the combined key (SpecKeys) *)

\* The names of a list of names.
Names(a) == {a[i] : i \in 1..Len(a)}

\* Calls c and d asked for different things: their queries, their sets of
\* categories or their sets of areas differ.
DifferentRequests(c, d) ==
    \/ calls[c].options.searchQuery # calls[d].options.searchQuery
    \/ Names(calls[c].options.categories) # Names(calls[d].options.categories)
    \/ Names(calls[c].options.areas) # Names(calls[d].options.areas)

-----------------------------------------------------------------------------
(* Properties of withCache under clear and delete (SpecClear) *)

\* C36: a call whose fetch was in flight when the cache was last cleared (or
\* a key last deleted) and whose fetcher then resolves writes its entry all
\* the same: after the step the store holds the fetched value under its key.
C36_ClearDoesNotCancel ==
    [][\A c \in 1..Len(calls) :
          (/\ last.op \in {"clear", "delete"}
           /\ c \in last.inFlight
           /\ calls[c].status = "pending"
           /\ calls'[c].status = "resolved") =>
              /\ MapHas(cache', calls[c].key)
              /\ cache'[calls[c].key].data = calls'[c].result]_vars

\* A store holding entries was cleared while the latest call was in flight
\* (so no call was made since); that call has resolved, no other fetch is in
\* flight, and the store is not empty.
C36_Witness ==
    /\ last.op = "clear"
    /\ last.keys # {}
    /\ Len(calls) > 0
    /\ last.inFlight = {Len(calls)}
    /\ calls[Len(calls)].status = "resolved"
    /\ cache # EmptyMap

-----------------------------------------------------------------------------
(* Properties of a resolution retried after a failure (SpecResolve) *)

\* Call d is the retry of the failed resolution c: the next call, for the
\* same combined key, neither overlapping another call.
RetryOf(c, d) ==
    /\ d = c + 1
    /\ IsFiltered(c) /\ IsFiltered(d)
    /\ calls[c].status = "rejected"
    /\ calls[d].key = calls[c].key
    /\ Undisturbed(c) /\ Undisturbed(d)

\* The per-category, per-area and per-id keys under which sub-fetches of
\* call c wrote an entry that the next call found stored.
WrittenBy(c) ==
    {k \in DOMAIN calls[c + 1].before :
        /\ ~MapHas(calls[c].before, k)
        /\ \E i \in ArrivalsOf(c) : arrivals[i].key = k}

\* Call d asked upstream for the key: the request is pending or was answered.
Requested(d, k) ==
    \/ \E n \in 1..Len(nodes) :
           nodes[n].call = d /\ nodes[n].key = k /\ nodes[n].phase # "done"
    \/ \E i \in ArrivalsOf(d) : arrivals[i].key = k

\* Every entry written is still stored with the value written.
WrittenStays ==
    \A k \in DOMAIN setLog : MapHas(cache, k) /\ cache[k].data = setLog[k].data

\* C37 (as stated): when a resolution fails, the entries written by its
\* sub-fetches that succeeded stay in the cache, and the retried resolution
\* makes no upstream request for any of their keys.
C37_RetryReusesEntries ==
    /\ WrittenStays
    /\ \A c \in 1..Len(calls) : \A d \in 1..Len(calls) :
           RetryOf(c, d) => \A k \in WrittenBy(c) : ~Requested(d, k)

\* The same for the entries that hold a value: every entry other than the
\* not-found value null of a lookup is reused by the retry.
RetryReusesValues ==
    /\ WrittenStays
    /\ \A c \in 1..Len(calls) : \A d \in 1..Len(calls) :
           RetryOf(c, d) =>
               \A k \in WrittenBy(c) :
                   calls[d].before[k].data # Null => ~Requested(d, k)

\* A retry found an entry of the failed resolution and its list, answered or
\* not, needed that key.
RetryReusedEntry ==
    \E c \in 1..Len(calls) : \E d \in 1..Len(calls) :
        /\ RetryOf(c, d)
        /\ \E k \in WrittenBy(c) : calls[d].before[k].data # Null
        /\ calls[d].up.category + calls[d].up.area + calls[d].up.lookup > 0

-----------------------------------------------------------------------------
(* Properties of the summaries of the category and area branches           *)
(* (SpecResolve)                                                           *)

\* The summaries of the meals listed for call c: none for a meal whose
\* lookup gave not-found, otherwise the id, name, thumbnail, category and
\* area of the record the lookup gave.
RECURSIVE LookedUp(_, _)
LookedUp(c, listed) ==
    IF listed = <<>> THEN <<>>
    ELSE LET found == MealFor(c, Head(listed).idMeal)
         IN (IF found = Null THEN <<>>
             ELSE <<[idMeal |-> found.meal.idMeal,
                     strMeal |-> found.meal.strMeal,
                     strMealThumb |-> found.meal.strMealThumb,
                     strCategory |-> found.meal.strCategory,
                     strArea |-> found.meal.strArea]>>)
            \o LookedUp(c, Tail(listed))

\* The key of the i-th list call c awaited.
PartKey(c, i) ==
    IF calls[c].branch = "category"
    THEN FilterByCategoryKey(SortStrings(calls[c].options.categories)[i])
    ELSE FilterByAreaKey(SortStrings(calls[c].options.areas)[i])

\* C38: in the category and area branches, each list fetched for a name
\* holds, in the order of the filter endpoint's listing, one summary per
\* listed meal whose per-id lookup found a record (none for a not-found
\* lookup), with the id, name, thumbnail, category and area of the looked-up
\* record.
C38_SummariesFromLookups ==
    \A c \in 1..Len(calls) :
        /\ Resolution(c)
        /\ calls[c].branch \in {"category", "area"}
        /\ Undisturbed(c)
        /\ SameResponses(c)
        => \A i \in 1..Len(calls[c].parts) :
               ~HeldAtStart(c, PartKey(c, i)) =>
                   calls[c].parts[i].list =
                       LookedUp(c, MealsOrEmpty(PayloadFor(c, PartKey(c, i))))

\* C38 witness: category B lists meals 2 and 1; the lookup of meal 2 gives
\* not-found and the lookup of meal 1 a record whose name and thumbnail
\* differ from the listing: the result is that record's summary alone.
C38_Witness ==
    \E c \in 1..Len(calls) :
        /\ Resolution(c)
        /\ Undisturbed(c)
        /\ SameResponses(c)
        /\ calls[c].options.categories = <<C, B>>
        /\ ~HeldAtStart(c, FilterByCategoryKey(B))
        /\ PayloadFor(c, FilterByCategoryKey(B)).meals
               = List(<<Partial(Meal2), Partial(Meal1)>>)
        /\ MealFor(c, <<"2">>) = Null
        /\ MealFor(c, <<"1">>) = Meal(Meal1Edited)
        /\ calls[c].result.list
               = <<[idMeal |-> <<"1">>, strMeal |-> "uno", strMealThumb |-> "uno.jpg",
                    strCategory |-> B, strArea |-> M]>>

====
